---- MODULE Spec2Model ----
(***************************************************************************)
(* Model of github-trending-cli: the on-disk cache store (read_cache,      *)
(* write_cache, clear_cache), the rate limiter and the trending fetcher    *)
(* with its scraping fallback (src/github_trending.py), and the repository *)
(* analyzer with its health scores (src/analyzer.py).                      *)
(*                                                                         *)
(* Time is counted in tenths of a second, so that RATE_LIMIT_DELAY (0.5 s) *)
(* is a whole number of clock units.                                       *)
(***************************************************************************)
EXTENDS Integers, Sequences, FiniteSets, TLC

VARIABLES
    now,            \* time.time(), in tenths of a second
    last_api_call,  \* the module global _last_api_call
    disk,           \* the files under CACHE_DIR, by cache path
    stored,         \* by cache path, the payload a completed write_cache left there
    last,           \* the call that has just returned: arguments, result, calls made
    budget,         \* how many more steps of each kind the run may take
    threads         \* by thread, where it is in rate_limit() and its last call

vars == <<now, last_api_call, disk, stored, last, budget, threads>>

-----------------------------------------------------------------------------
(* Bounds of the model *)

\* clock advances (between calls) in one run
MaxTicks == 2
\* write_cache calls in one run of the cache store
MaxWrites == 2
\* files damaged from outside the program in one run
MaxDamage == 1
\* fetch_trending calls (program invocations) in one run
MaxFetches == 2
\* the clock value the run starts at (any time later than the longest TTL)
StartTime == 900000
\* how long, in clock units, a run of the rate limiter lasts
MaxRateTime == 20
\* entries in the list given to analyze_repos
MaxBatch == 3
\* how long, in clock units, the batch analyses of a run may sleep in all
MaxBatchTime == 12
\* the longest list filter_repos is given
MaxRepos == 2
\* the largest sample of open issues score_issue_response is given
MaxIssues == 5
\* calls of rate_limit() by each of the concurrent threads
MaxCalls == 2
\* how long after StartTime a thread may still begin a call
MaxCallTime == 6

-----------------------------------------------------------------------------
(* Python values and JSON documents.  Every value is a record of the same  *)
(* shape: a type tag t, a string s, a number n and a sequence of children  *)
(* c.  The children of a dict are its items in insertion order, each       *)
(* [k |-> key, v |-> value]; the members of a JSON object are              *)
(* [name |-> string, value |-> document].                                  *)

Val(t, s, n, c) == [t |-> t, s |-> s, n |-> n, c |-> c]

PyNone      == Val("None", "", 0, <<>>)
PyStr(x)    == Val("str", x, 0, <<>>)
PyNum(i)    == Val("num", "", i, <<>>)
PyList(xs)  == Val("list", "", 0, xs)
PyTuple(xs) == Val("tuple", "", 0, xs)
PyDict(kvs) == Val("dict", "", 0, kvs)
\* a set: json cannot serialize it (TypeError)
PySet       == Val("set", "", 0, <<>>)
\* a container that contains itself: json.dump raises ValueError
PyCircular  == Val("circular", "", 0, <<>>)
\* a str holding a lone surrogate, as json.loads makes of the escape \ud800:
\* the utf-8 file encoder rejects it (UnicodeEncodeError)
PySurrogate == Val("str", "\\ud800", 0, <<>>)

\* True and False
PyBool(b)   == Val("bool", "", IF b THEN 1 ELSE 0, <<>>)

Item(k, v) == [k |-> k, v |-> v]
\* a dict with str keys, from a sequence of <<key, value>>
StrDict(kvs) == PyDict([i \in DOMAIN kvs |-> Item(PyStr(kvs[i][1]), kvs[i][2])])

JNull       == Val("null", "", 0, <<>>)
JString(x)  == Val("string", x, 0, <<>>)
JNumber(i)  == Val("number", "", i, <<>>)
JArray(xs)  == Val("array", "", 0, xs)
JObject(ms) == Val("object", "", 0, ms)
JBool(b)    == Val(IF b THEN "true" ELSE "false", "", 0, <<>>)
Member(name, value) == [name |-> name, value |-> value]

\* Python truthiness: None, 0, "" and empty containers are false
Truthy(x) ==
    CASE x.t = "None" -> FALSE
      [] x.t = "num"  -> x.n # 0
      [] x.t = "bool" -> x.n # 0
      [] x.t = "str"  -> x.s # ""
      [] x.t \in {"list", "tuple", "dict"} -> Len(x.c) > 0
      [] OTHER -> TRUE

\* `key in d` for a dict d and a str key
HasKey(d, key) == \E i \in DOMAIN d.c : d.c[i].k = PyStr(key)

\* d.get(key, default)
dict_get(d, key, default) ==
    IF HasKey(d, key)
    THEN d.c[CHOOSE i \in DOMAIN d.c : d.c[i].k = PyStr(key)].v
    ELSE default

\* d[key] = value: replaces the value of an existing key, appends a new one
dict_set(d, key, value) ==
    IF HasKey(d, key)
    THEN PyDict([i \in DOMAIN d.c |->
                  IF d.c[i].k = PyStr(key) THEN Item(d.c[i].k, value) ELSE d.c[i]])
    ELSE PyDict(Append(d.c, Item(PyStr(key), value)))

-----------------------------------------------------------------------------
(* The exception classes the code meets, and `except` matching *)

NoExc == "none"

Parent(e) ==
    CASE e \in {"PermissionError", "FileNotFoundError", "URLError", "TimeoutError"}
              -> "OSError"
      [] e = "HTTPError" -> "URLError"
      [] e \in {"JSONDecodeError", "UnicodeError"} -> "ValueError"
      [] e \in {"UnicodeDecodeError", "UnicodeEncodeError"} -> "UnicodeError"
      [] e = "SystemExit" -> "BaseException"
      [] OTHER -> "Exception"

RECURSIVE IsInstance(_, _)
IsInstance(e, classes) ==
    IF e \in classes THEN TRUE
    ELSE IF e \in {"Exception", "BaseException", NoExc} THEN FALSE
    ELSE IsInstance(Parent(e), classes)

\* the result of running a body: a return value or a raised exception
Ret(v)   == [ret |-> v, exc |-> NoExc]
Raise(e) == [ret |-> PyNone, exc |-> e]

-----------------------------------------------------------------------------
(* json.dump / json.load *)

\* the text json writes for a dict key: a str as it is, a number as digits
KeyText(k) == IF k.t = "num" THEN ToString(k.n) ELSE k.s

\* the document json.dump writes for a value that it can serialize
RECURSIVE json_dump(_)
json_dump(x) ==
    CASE x.t = "None" -> JNull
      [] x.t = "str"  -> JString(x.s)
      [] x.t = "num"  -> JNumber(x.n)
      [] x.t = "bool" -> JBool(x.n # 0)
      [] x.t \in {"list", "tuple"} ->
            JArray([i \in DOMAIN x.c |-> json_dump(x.c[i])])
      [] x.t = "dict" ->
            JObject([i \in DOMAIN x.c |->
                      Member(KeyText(x.c[i].k), json_dump(x.c[i].v))])
      [] OTHER -> JNull

\* the exception json.dump(x, f, ensure_ascii=False) raises while it writes
\* x to a utf-8 text file, NoExc when it writes all of x
RECURSIVE dump_error(_)
RECURSIVE first_error(_, _)
first_error(xs, i) ==
    IF i > Len(xs) THEN NoExc
    ELSE LET e == dump_error(xs[i]) IN
         IF e # NoExc THEN e ELSE first_error(xs, i + 1)
dump_error(x) ==
    CASE x.t = "set" -> "TypeError"
      [] x.t = "circular" -> "ValueError"
      [] x.t = "str" -> IF x = PySurrogate THEN "UnicodeEncodeError" ELSE NoExc
      [] x.t \in {"list", "tuple"} -> first_error(x.c, 1)
      [] x.t = "dict" -> first_error([i \in DOMAIN x.c |-> x.c[i].v], 1)
      [] OTHER -> NoExc

\* the value json.load makes of a document: an object becomes a dict with
\* str keys, an array a list
RECURSIVE json_load(_)
json_load(j) ==
    CASE j.t = "null"   -> PyNone
      [] j.t = "string" -> PyStr(j.s)
      [] j.t = "number" -> PyNum(j.n)
      [] j.t \in {"true", "false"} -> PyBool(j.t = "true")
      [] j.t = "array"  -> PyList([i \in DOMAIN j.c |-> json_load(j.c[i])])
      [] j.t = "object" ->
            PyDict([i \in DOMAIN j.c |->
                     Item(PyStr(j.c[i].name), json_load(j.c[i].value))])
      [] OTHER -> PyNone

-----------------------------------------------------------------------------
(* Cache store: configuration and files *)

\* 0.5 s between API calls
RATE_LIMIT_DELAY == 5

CACHE_TTL ==
    [trending  |-> 3600 * 10,
     repo_info |-> 86400 * 10,
     readme    |-> 86400 * 10,
     tree      |-> 86400 * 10,
     deps      |-> 86400 * 10,
     issues    |-> 1800 * 10]

\* CACHE_TTL.get(cache_type, 3600)
ttl_of(cache_type) ==
    IF cache_type \in DOMAIN CACHE_TTL THEN CACHE_TTL[cache_type] ELSE 3600 * 10

\* the cache categories and keys of the model; "scratch" has no entry in
\* CACHE_TTL
Categories == {"trending", "issues", "scratch"}
\* the (since, language) partitions of the model
Partitions == {<<"daily", "all">>, <<"weekly", "Python">>}

\* f"{since}_{language}"
cache_key(since, language) == since \o "_" \o language

Keys == {cache_key(p[1], p[2]) : p \in Partitions}

\* hashlib.md5(key.encode()).hexdigest(): a digest that differs for different
\* keys
md5_hexdigest(key) == "md5<" \o key \o ">"

\* CACHE_DIR / cache_type / f"{safe_key}.json"
get_cache_path(cache_type, key) ==
    [dir |-> cache_type, name |-> md5_hexdigest(key) \o ".json"]

\* the (cache_type, key) pairs the direct calls of read_cache and write_cache
\* use in the model: two keys of one category and one key of a category
\* without an entry in CACHE_TTL
Cells ==
    {<<"issues", k>> : k \in Keys} \cup {<<"scratch", cache_key("daily", "all")>>}

\* the cache paths of the model: those of Cells and those of fetch_trending
Paths ==
    {get_cache_path(c[1], c[2]) : c \in Cells}
        \cup {get_cache_path("trending", k) : k \in Keys}

\* What a path holds:
\*   absent   no file
\*   json     a complete JSON text, doc
\*   partial  text that is not a JSON document (a truncated or empty file)
\*   bytes    bytes that are not utf-8 text
\*   denied   a file that open() refuses (PermissionError)
File(kind, doc) == [kind |-> kind, doc |-> doc]
Absent  == File("absent", JNull)
Partial == File("partial", JNull)

\* cache_data with the payload under "data" instead of "_data"
cache_data_misnamed(t, key, data) ==
    StrDict(<< <<"_cached_at", PyNum(t)>>, <<"_key", PyStr(key)>>,
               <<"data", data>> >>)

\* {"_cached_at": time.time(), "_key": key, "_data": data}
cache_data(t, key, data) ==
    StrDict(<< <<"_cached_at", PyNum(t)>>, <<"_key", PyStr(key)>>,
               <<"_data", data>> >>)

\* read_cache_body with the TTL test `>=` instead of `>`
read_cache_body_strict(d, t, cache_type, key) ==
    LET f == d[get_cache_path(cache_type, key)] IN
    CASE f.kind = "absent"  -> Ret(PyNone)
      [] f.kind = "denied"  -> Raise("PermissionError")
      [] f.kind = "bytes"   -> Raise("UnicodeDecodeError")
      [] f.kind = "partial" -> Raise("JSONDecodeError")
      [] OTHER ->
           LET data == json_load(f.doc) IN
           IF data.t # "dict"
           THEN Raise("AttributeError")
           ELSE LET cached_at == dict_get(data, "_cached_at", PyNum(0)) IN
                IF cached_at.t # "num"
                THEN Raise("TypeError")
                ELSE IF t - cached_at.n >= ttl_of(cache_type)
                     THEN Ret(PyNone)
                     ELSE Ret(dict_get(data, "_data", PyNone))

\* the body of read_cache's try block (and the exists() test before it)
read_cache_body(d, t, cache_type, key) ==
    LET f == d[get_cache_path(cache_type, key)] IN
    CASE f.kind = "absent"  -> Ret(PyNone)
      [] f.kind = "denied"  -> Raise("PermissionError")
      [] f.kind = "bytes"   -> Raise("UnicodeDecodeError")
      [] f.kind = "partial" -> Raise("JSONDecodeError")
      [] OTHER ->
           LET data == json_load(f.doc) IN
           IF data.t # "dict"
           THEN Raise("AttributeError")      \* no .get on a list, str, number, None
           ELSE LET cached_at == dict_get(data, "_cached_at", PyNum(0)) IN
                IF cached_at.t # "num"
                THEN Raise("TypeError")      \* float - str, float - None, ...
                ELSE IF t - cached_at.n > ttl_of(cache_type)
                     THEN Ret(PyNone)
                     ELSE Ret(dict_get(data, "_data", PyNone))

\* read_cache(cache_type, key) at time t on disk d: what it returns or raises
read_cache(d, t, cache_type, key) ==
    LET r == read_cache_body(d, t, cache_type, key) IN
    IF IsInstance(r.exc, {"OSError", "JSONDecodeError", "KeyError"})
    THEN Ret(PyNone)
    ELSE r

\* What the file system does to a write: nothing ("ok"), an OSError from
\* mkdir or open ("open_fails"), or an OSError from the write itself, such as
\* a full disk ("write_fails").
IoOutcomes == {"ok", "open_fails", "write_fails"}

\* the result of a write: the disk it leaves, the exception it raises, and
\* whether the whole record reached the file
Written(d, exc, done) == [disk |-> d, exc |-> exc, done |-> done]

\* the body of write_cache's try block
write_cache_body(d, t, cache_type, key, data, io) ==
    LET path   == get_cache_path(cache_type, key)
        record == cache_data(t, key, data)
        broken == dump_error(record)
    IN  IF io = "open_fails"
        THEN Written(d, "PermissionError", FALSE)
        ELSE \* open(cache_path, 'w') has emptied the file
             IF broken # NoExc
             THEN Written([d EXCEPT ![path] = Partial], broken, FALSE)
             ELSE IF io = "write_fails"
             THEN Written([d EXCEPT ![path] = Partial], "OSError", FALSE)
             ELSE Written([d EXCEPT ![path] = File("json", json_dump(record))],
                          NoExc, TRUE)

\* write_cache(cache_type, key, data) at time t: the disk it leaves and the
\* exception that reaches the caller
write_cache(d, t, cache_type, key, data, io) ==
    LET w == write_cache_body(d, t, cache_type, key, data, io) IN
    IF IsInstance(w.exc, {"OSError", "TypeError"})
    THEN Written(w.disk, NoExc, w.done)
    ELSE w

\* cleared_paths when clear_cache() looks for files in CACHE_DIR itself
\* instead of in its subdirectories
cleared_paths_flat(d, cache_type) ==
    IF cache_type \notin {"None", ""}
    THEN {p \in DOMAIN d : p.dir = cache_type /\ d[p].kind # "absent"}
    ELSE {}

\* cleared_paths when clear_cache(cache_type) does not look at cache_type and
\* always walks every subdirectory
cleared_paths_every(d, cache_type) ==
    {p \in DOMAIN d : d[p].kind # "absent"}

\* the files clear_cache(cache_type) unlinks; "None" stands for the default
\* argument None
cleared_paths(d, cache_type) ==
    IF cache_type \notin {"None", ""}
    THEN {p \in DOMAIN d : p.dir = cache_type /\ d[p].kind # "absent"}
    ELSE {p \in DOMAIN d : d[p].kind # "absent"}

\* clear_cache(cache_type): the disk it leaves and the count it returns
clear_cache(d, cache_type) ==
    LET gone == cleared_paths(d, cache_type) IN
    [disk |-> [p \in DOMAIN d |-> IF p \in gone THEN Absent ELSE d[p]],
     count |-> Cardinality(gone)]

-----------------------------------------------------------------------------
(* Inputs of the model *)

\* the payloads handed to write_cache
Payloads ==
    { StrDict(<< <<"items", PyList(<< StrDict(<< <<"title", PyStr("test/repo")>> >>) >>)>> >>),
      PyNone,
      PyTuple(<<PyNum(1), PyNum(2)>>),
      PyDict(<<Item(PyNum(1), PyStr("a"))>>),
      StrDict(<< <<"a", PySet>> >>),
      StrDict(<< <<"self", PyCircular>> >>),
      StrDict(<< <<"a", PySurrogate>> >>) }

\* files that something other than write_cache left in the cache directory
ForeignFiles ==
    { File("json", JArray(<<>>)),
      File("json", JString("x")),
      File("json", JObject(<<Member("_cached_at", JString("x")),
                             Member("_data", JNumber(1))>>)),
      File("json", JObject(<<Member("_data", JNumber(1))>>)),
      File("json", JObject(<<Member("_cached_at", JNumber(StartTime))>>)),
      File("bytes", JNull),
      File("denied", JNull),
      Partial }

\* how far the clock moves between two calls
TickSizes == {1800 * 10, 1800 * 10 + 1}

\* how far the clock moves between two calls of rate_limit(): less than
\* RATE_LIMIT_DELAY, exactly that, and more
ElapseSizes == {1, 4, 5, 6}

-----------------------------------------------------------------------------
(* State *)

\* stored[p]: the last write_cache call on path p, as long as nothing has
\* written, cleared or replaced p since: its payload, its time, whether the
\* whole record reached the file, and who called it ("write_cache" for a
\* direct call, "primary" or "fallback" for the two calls of fetch_trending)
NothingStored ==
    [valid |-> FALSE, data |-> PyNone, at |-> 0, done |-> FALSE, via |-> ""]
Stored(data, t, done, via) ==
    [valid |-> TRUE, data |-> data, at |-> t, done |-> done, via |-> via]

\* the record of a call: the operation and its arguments, what it returned
\* (ret, count) or raised (exc), and for fetch_trending how it ended
\* (outcome), what read_cache had returned to it (found), how the primary
\* feed answered (primary) and with what parsed body (feed), what
\* scrape_trending returned (repos), the calls it made in order (trace) and
\* the data it handed to write_cache (wrote); for the analyzer GITHUB_TOKEN
\* (token), the argument of the call (args) and the answers of the API (api);
\* for filter_repos the list (args) and the filters (opts)
Call(op, cache_type, key, ret, exc, count) ==
    [op |-> op, cache_type |-> cache_type, key |-> key, ret |-> ret,
     exc |-> exc, count |-> count,
     since |-> "", language |-> "", use_cache |-> FALSE, outcome |-> "",
     found |-> PyNone, primary |-> "", repos |-> PyNone, trace |-> <<>>,
     wrote |-> PyNone, feed |-> PyNone,
     token |-> "", args |-> PyNone, api |-> <<>>, opts |-> <<>>]

NoCall == Call("none", "", "", PyNone, NoExc, 0)

-----------------------------------------------------------------------------
(* Rate limiter, scraper, trending fetcher *)

BASE_URL == "https://raw.githubusercontent.com/isboyjc/github-trending-api/main/data"
GITHUB_TRENDING_URL == "https://github.com/trending"

\* str.lower() on the languages of the model
lower(x) == IF x = "Python" THEN "python" ELSE x

\* rate_limit() without the sleep
rate_limit_no_sleep(t, lac) == [now |-> t, last_api_call |-> t]

\* rate_limit() called at time t with _last_api_call = lac: the time it
\* returns at (after sleeping) and the timestamp it records
rate_limit(t, lac) ==
    LET elapsed == t - lac
        woke    == IF elapsed < RATE_LIMIT_DELAY
                   THEN t + (RATE_LIMIT_DELAY - elapsed)
                   ELSE t
    IN  [now |-> woke, last_api_call |-> woke]

\* the threads that call rate_limit() concurrently
Threads == {"t1", "t2"}

\* one call made by fetch_trending, with the argument that tells calls apart
Ev(call, arg) == [call |-> call, arg |-> arg]

\* the two normalisations of one item of the primary feed
normalize_item(item) ==
    LET a == IF HasKey(item, "url") /\ ~HasKey(item, "link")
             THEN dict_set(item, "link", dict_get(item, "url", PyNone))
             ELSE item
    IN  IF HasKey(a, "addStars") /\ ~HasKey(a, "todayStars")
        THEN dict_set(a, "todayStars", dict_get(a, "addStars", PyNone))
        ELSE a

\* the block `if 'items' in data: for item in data['items']: ...`
normalize(data) ==
    CASE data.t \in {"None", "num"} -> Raise("TypeError")   \* `in` needs a container
      [] data.t = "dict" /\ HasKey(data, "items") ->
            LET items == dict_get(data, "items", PyNone) IN
            IF items.t \in {"None", "num"}
            THEN Raise("TypeError")                         \* not iterable
            ELSE IF items.t # "list"
            THEN Ret(data)
            ELSE IF \E i \in DOMAIN items.c : items.c[i].t \in {"None", "num"}
            THEN Raise("TypeError")
            ELSE Ret(dict_set(data, "items",
                     PyList([i \in DOMAIN items.c |->
                               IF items.c[i].t = "dict"
                               THEN normalize_item(items.c[i])
                               ELSE items.c[i]])))
      [] OTHER -> Ret(data)

\* What the primary feed does with a request:
\*   ok          a response whose body is the JSON text doc
\*   http_error  urlopen raises HTTPError(code)
\*   url_error   urlopen raises URLError (no route, refused, connect timeout)
\*   timeout     the socket times out while the response is read
\*   not_json    a response whose body is not a JSON text
\*   not_utf8    a response whose body is not utf-8
Response(kind, code, doc) == [kind |-> kind, code |-> code, doc |-> doc]

\* urlopen(url) and json.loads(response.read().decode('utf-8'))
primary_request(resp) ==
    CASE resp.kind = "ok"         -> Ret(json_load(resp.doc))
      [] resp.kind = "http_error" -> Raise("HTTPError")
      [] resp.kind = "url_error"  -> Raise("URLError")
      [] resp.kind = "timeout"    -> Raise("TimeoutError")
      [] resp.kind = "not_json"   -> Raise("JSONDecodeError")
      [] OTHER                    -> Raise("UnicodeDecodeError")

\* the URL scrape_trending(language, since) requests
scrape_url(language, since) ==
    GITHUB_TRENDING_URL \o "/" \o language \o "?since=" \o since

\* datetime.now(timezone.utc).strftime(...): the time to the second
pub_date(t) == PyStr("GMT " \o ToString(t \div 10))

\* the result of a call of fetch_trending: the disk, clock and
\* _last_api_call it leaves, how it ended ("return", "raise", or "exit" for
\* sys.exit(1)), what it returned or raised, and what it did on the way
Fetched(d, t, lac, outcome, ret, exc, trace, primary, repos, wrote, done) ==
    [disk |-> d, now |-> t, last_api_call |-> lac, outcome |-> outcome,
     ret |-> ret, exc |-> exc, trace |-> trace, primary |-> primary,
     repos |-> repos, wrote |-> wrote, done |-> done]

\* the end of both branches: write_cache("trending", key, data), return data
cache_and_return(d, t, lac, key, data, io, trace, primary, repos) ==
    LET w  == write_cache(d, t, "trending", key, data, io)
        tr == Append(trace, Ev("write_cache", key))
    IN  IF w.exc # NoExc
        THEN Fetched(w.disk, t, lac, "raise", PyNone, w.exc, tr, primary, repos,
                     data, w.done)
        ELSE Fetched(w.disk, t, lac, "return", data, NoExc, tr, primary, repos,
                     data, w.done)

\* fetch_fallback caching under a key that ignores the partition
fetch_fallback_fixed_key(d, t, lac, since, language, scraped, io, trace, primary) ==
    LET key   == cache_key("daily", "all")
        repos == scraped
        tr    == Append(trace, Ev("scrape_trending",
                     scrape_url(IF language # "all" THEN language ELSE "", since)))
    IN  IF Truthy(repos)
        THEN cache_and_return(d, t, lac, key,
                 StrDict(<< <<"items", repos>>, <<"pubDate", pub_date(t)>> >>),
                 io, tr, primary, repos)
        ELSE Fetched(d, t, lac, "exit", PyNone, "SystemExit", tr, primary, repos,
                     PyNone, FALSE)

\* fetch_fallback without the `if repos:` test: an empty scrape is cached and
\* returned like any other
fetch_fallback_empty_ok(d, t, lac, since, language, scraped, io, trace, primary) ==
    LET key   == cache_key(since, language)
        repos == scraped
        tr    == Append(trace, Ev("scrape_trending",
                     scrape_url(IF language # "all" THEN language ELSE "", since)))
    IN  cache_and_return(d, t, lac, key,
            StrDict(<< <<"items", repos>>, <<"pubDate", pub_date(t)>> >>),
            io, tr, primary, repos)

\* the fallback of fetch_trending, after `trace`: scrape, then cache and
\* return, or exit
fetch_fallback(d, t, lac, since, language, scraped, io, trace, primary) ==
    LET key   == cache_key(since, language)
        repos == scraped
        tr    == Append(trace, Ev("scrape_trending",
                     scrape_url(IF language # "all" THEN language ELSE "", since)))
    IN  IF Truthy(repos)
        THEN cache_and_return(d, t, lac, key,
                 StrDict(<< <<"items", repos>>, <<"pubDate", pub_date(t)>> >>),
                 io, tr, primary, repos)
        ELSE Fetched(d, t, lac, "exit", PyNone, "SystemExit", tr, primary, repos,
                     PyNone, FALSE)

\* the URL of the primary feed for a partition
feed_url(since, language) ==
    BASE_URL \o "/" \o since \o "/" \o lower(language) \o ".json"

\* the try block of fetch_trending and its except clauses, after `trace`:
\* rate_limit, the primary request, normalisation, write_cache
fetch_primary(d, t, lac, since, language, resp, scraped, io, trace) ==
    LET key  == cache_key(since, language)
        rl   == rate_limit(t, lac)
        tr   == trace \o <<Ev("rate_limit", ""),
                           Ev("urlopen", feed_url(since, language))>>
        got  == primary_request(resp)
        norm == normalize(got.ret)
    IN  IF IsInstance(got.exc, {"HTTPError", "URLError"})
        THEN fetch_fallback(d, rl.now, rl.last_api_call, since, language,
                            scraped, io, tr, resp.kind)
        ELSE IF got.exc # NoExc
        THEN Fetched(d, rl.now, rl.last_api_call, "raise", PyNone, got.exc, tr,
                     resp.kind, PyNone, PyNone, FALSE)
        ELSE IF norm.exc # NoExc
        THEN Fetched(d, rl.now, rl.last_api_call, "raise", PyNone, norm.exc, tr,
                     resp.kind, PyNone, PyNone, FALSE)
        ELSE cache_and_return(d, rl.now, rl.last_api_call, key, norm.ret, io,
                              tr, resp.kind, PyNone)

\* fetch_trending(since, language, use_cache) called at time t on disk d with
\* _last_api_call = lac, when the primary feed answers resp, the listing page
\* yields the repositories scraped and the file system does io to a write
fetch_trending(d, t, lac, since, language, use_cache, resp, scraped, io) ==
    LET key    == cache_key(since, language)
        cached == read_cache(d, t, "trending", key)
        tr     == <<Ev("read_cache", key)>>
    IN  IF ~use_cache
        THEN fetch_primary(d, t, lac, since, language, resp, scraped, io, <<>>)
        ELSE IF cached.exc # NoExc
        THEN Fetched(d, t, lac, "raise", PyNone, cached.exc, tr, "", PyNone,
                     PyNone, FALSE)
        ELSE IF Truthy(cached.ret)
        THEN Fetched(d, t, lac, "return", cached.ret, NoExc, tr, "", PyNone,
                     PyNone, FALSE)
        ELSE fetch_primary(d, t, lac, since, language, resp, scraped, io, tr)

-----------------------------------------------------------------------------
(* Inputs of the trending fetcher *)

\* the answers of the primary feed
FeedItems ==
    PyList(<< StrDict(<< <<"title", PyStr("a/b")>>, <<"url", PyStr("https://github.com/a/b")>>,
                         <<"addStars", PyStr("5")>> >>),
              StrDict(<< <<"title", PyStr("c/d")>>, <<"url", PyStr("https://github.com/c/d")>>,
                         <<"link", PyStr("https://c.example/d")>>,
                         <<"addStars", PyStr("7")>>, <<"todayStars", PyStr("9")>> >>) >>)

Responses ==
    { Response("ok", 200, JObject(<<>>)),
      Response("ok", 200, json_dump(StrDict(<< <<"items", PyList(<<>>)>> >>))),
      Response("ok", 200, json_dump(StrDict(<< <<"items", FeedItems>>,
                                                <<"pubDate", PyStr("Mon")>> >>))),
      Response("ok", 200, JNull),
      Response("ok", 200, JObject(<<Member("items",
                   JArray(<<JObject(<<Member("title", JString("\\ud800"))>>)>>))>>)),
      Response("ok", 200, JObject(<<Member("items", JArray(<<>>)),
                                    Member("pubDate", JString("\\ud800"))>>)),
      Response("http_error", 404, JNull),
      Response("http_error", 500, JNull),
      Response("url_error", 0, JNull),
      Response("timeout", 0, JNull),
      Response("not_json", 200, JNull),
      Response("not_utf8", 200, JNull) }

\* what scrape_trending returns: nothing (also when the request fails), or
\* the repositories it found
ScrapedRepo ==
    StrDict(<< <<"title", PyStr("e/f")>>, <<"description", PyStr("")>>,
               <<"stars", PyStr("1,234")>>, <<"language", PyStr("Zig")>>,
               <<"todayStars", PyStr("")>>, <<"link", PyStr("https://github.com/e/f")>> >>)

Scrapes == {PyList(<<>>), PyList(<<ScrapedRepo>>)}

-----------------------------------------------------------------------------
(* Repository analyzer (src/analyzer.py): API helpers and data fetchers *)

API_BASE == "https://api.github.com"

\* the headers api_request sends: Authorization only when GITHUB_TOKEN is set
request_headers(token) ==
    [User_Agent    |-> "github-trending-cli",
     Accept        |-> "application/vnd.github.v3+json",
     Authorization |-> IF token # "" THEN "token " \o token ELSE ""]

\* the dict {"_error": text}
ErrorDict(text) == StrDict(<< <<"_error", PyStr(text)>> >>)

\* api_request on an API that refuses a request without a token
api_request_needs_token(token, endpoint, resp) ==
    [req |-> [url |-> API_BASE \o endpoint, headers |-> request_headers(token)],
     ret |-> IF token = "" THEN ErrorDict("rate_limited")
             ELSE json_load(resp.doc)]

\* api_request(endpoint) with GITHUB_TOKEN = token, when the API answers resp:
\* the request it sends and the value it returns.  Every endpoint of the
\* analyzer starts with "/".
api_request(token, endpoint, resp) ==
    LET got == primary_request(resp) IN
    [req |-> [url |-> API_BASE \o endpoint, headers |-> request_headers(token)],
     ret |-> IF got.exc = NoExc THEN got.ret
             ELSE IF got.exc = "HTTPError"
             THEN IF resp.code = 403 THEN ErrorDict("rate_limited")
                  ELSE IF resp.code = 404 THEN ErrorDict("not_found")
                  ELSE ErrorDict("HTTP Error " \o ToString(resp.code))
             ELSE ErrorDict(got.exc)]

\* `key in x` for a str key: among a dict's keys or a list's elements; a str
\* of the model never holds a key inside a longer text; TypeError for a
\* value that is no container
py_in(key, x) ==
    CASE x.t = "dict" -> Ret(PyBool(HasKey(x, key)))
      [] x.t \in {"list", "tuple"} ->
            Ret(PyBool(\E i \in DOMAIN x.c : x.c[i] = PyStr(key)))
      [] x.t = "str" -> Ret(PyBool(x.s = key))
      [] OTHER -> Raise("TypeError")

\* x.get(key, default): AttributeError for a value that is no dict
attr_get(x, key, default) ==
    IF x.t = "dict" THEN Ret(dict_get(x, key, default))
    ELSE Raise("AttributeError")

\* the endpoints of a repository
repo_endpoint(owner, repo, rest) == "/repos/" \o owner \o "/" \o repo \o rest

\* get_rate_limit()
get_rate_limit(token, resp) ==
    LET result == api_request(token, "/rate_limit", resp).ret
        has    == py_in("_error", result)
    IN  IF Truthy(result) /\ has.exc # NoExc THEN has
        ELSE IF Truthy(result) /\ ~Truthy(has.ret)
        THEN LET resources == attr_get(result, "resources", PyDict(<<>>))
                 core      == attr_get(resources.ret, "core", PyDict(<<>>))
             IN  IF resources.exc # NoExc THEN resources
                 ELSE IF core.exc # NoExc THEN core
                 ELSE IF core.ret.t # "dict" THEN Raise("AttributeError")
                 ELSE Ret(StrDict(<<
                        <<"remaining", dict_get(core.ret, "remaining", PyNum(0))>>,
                        <<"limit", dict_get(core.ret, "limit", PyNum(60))>>,
                        <<"reset", dict_get(core.ret, "reset", PyNum(0))>> >>))
        ELSE Ret(StrDict(<< <<"remaining", PyNum(0)>>, <<"limit", PyNum(60)>>,
                            <<"reset", PyNum(0)>> >>))

\* get_repo_info that hides a failed call behind an empty dict
get_repo_info_lenient(token, owner, repo, resp) ==
    LET r == api_request(token, repo_endpoint(owner, repo, ""), resp).ret IN
    IF Truthy(r) /\ ~HasKey(r, "_error") THEN r ELSE PyDict(<<>>)

\* get_repo_info(owner, repo)
get_repo_info(token, owner, repo, resp) ==
    LET r == api_request(token, repo_endpoint(owner, repo, ""), resp).ret IN
    IF Truthy(r) THEN r ELSE PyDict(<<>>)

\* get_commits(owner, repo)
get_commits(token, owner, repo, resp) ==
    LET r == api_request(token, repo_endpoint(owner, repo, "/commits?per_page=10"),
                         resp).ret
    IN  IF r.t = "list" THEN r ELSE PyList(<<>>)

\* get_open_issues(owner, repo)
get_open_issues(token, owner, repo, resp) ==
    LET r == api_request(token,
                 repo_endpoint(owner, repo, "/issues?state=open&per_page=10"),
                 resp).ret
    IN  IF r.t = "list"
        THEN StrDict(<< <<"items", r>>, <<"count", PyNum(Len(r.c))>> >>)
        ELSE StrDict(<< <<"items", PyList(<<>>)>>, <<"count", PyNum(0)>> >>)

\* get_pull_requests(owner, repo)
get_pull_requests(token, owner, repo, resp) ==
    LET r == api_request(token,
                 repo_endpoint(owner, repo, "/pulls?state=all&per_page=20"),
                 resp).ret
    IN  IF r.t = "list" THEN r ELSE PyList(<<>>)

\* The README files of the model: the base64 text the API sends (content),
\* the text it decodes to, and what score_readme looks at in that text: its
\* length, and whether its lower-case form holds an installation word, a
\* usage word, a badge.
Readmes ==
    { [content |-> "IyB0b29s", text |-> "# tool",
       len |-> 6, install |-> FALSE, usage |-> FALSE, badges |-> FALSE],
      [content |-> "<base64 of guide.md>",
       text |-> "<guide.md: 800 characters, with an Example section>",
       len |-> 800, install |-> FALSE, usage |-> TRUE, badges |-> FALSE],
      [content |-> "<base64 of manual.md>",
       text |-> "<manual.md: 2400 characters, pip install, Usage, badges>",
       len |-> 2400, install |-> TRUE, usage |-> TRUE, badges |-> TRUE] }

\* base64.b64decode(content).decode('utf-8'): "QQ" is not padded
\* (binascii.Error, a ValueError), "/w==" decodes to a byte that is not utf-8
b64decode_utf8(content) ==
    CASE content.t # "str" -> Raise("TypeError")
      [] content.s = ""   -> Ret(PyStr(""))
      [] content.s = "/w==" -> Raise("UnicodeDecodeError")
      [] \E r \in Readmes : r.content = content.s ->
            Ret(PyStr((CHOOSE r \in Readmes : r.content = content.s).text))
      [] OTHER -> Raise("ValueError")

\* get_readme(owner, repo)
get_readme(token, owner, repo, resp) ==
    LET result == api_request(token, repo_endpoint(owner, repo, "/readme"), resp).ret
        has    == py_in("_error", result)
    IN  IF ~Truthy(result) THEN Ret(PyNone)
        ELSE IF has.exc # NoExc THEN has
        ELSE IF Truthy(has.ret) THEN Ret(PyNone)
        ELSE LET content == attr_get(result, "content", PyStr(""))
                 text    == b64decode_utf8(content.ret)
             IN  IF content.exc # NoExc THEN content
                 ELSE IF IsInstance(text.exc, {"ValueError", "UnicodeDecodeError"})
                 THEN Ret(PyNone)
                 ELSE text

-----------------------------------------------------------------------------
(* Repository analyzer: scoring functions *)

WEIGHTS ==
    [recent_commits  |-> 20,
     readme_quality  |-> 15,
     issue_response  |-> 15,
     pr_merge_rate   |-> 15,
     has_license     |-> 5,
     low_open_issues |-> 10,
     stars_velocity  |-> 10,
     not_archived    |-> 10]

\* datetime.now() in the runs of the model: 2026-11-02T00:00:00Z, in hours
\* since the epoch
AnalysisTime == 498216

\* datetime.fromisoformat(latest.replace("Z", "+00:00")), in hours since the
\* epoch, for the date texts of the model; ValueError for a text that is no
\* date
fromisoformat(text) ==
    CASE text = "2026-10-31T00:00:00Z" -> Ret(498168)
      [] text = "2026-10-27T00:00:00Z" -> Ret(498072)
      [] text = "2026-10-26T00:00:00Z" -> Ret(498048)
      [] text = "2026-10-04T00:00:00Z" -> Ret(497520)
      [] text = "2026-10-03T00:00:00Z" -> Ret(497496)
      [] text = "2026-08-05T00:00:00Z" -> Ret(496080)
      [] text = "2026-08-04T00:00:00Z" -> Ret(496056)
      [] text = "2026-05-07T00:00:00Z" -> Ret(493920)
      [] text = "2026-05-06T00:00:00Z" -> Ret(493896)
      [] text = "2026-04-01T00:00:00Z" -> Ret(493056)
      [] OTHER -> Raise("ValueError")

\* the pair (score, note) a scoring function returns
Scored(score, note) == Ret([score |-> score, note |-> PyStr(note)])

\* the first exception of a sequence of results, NoExc when there is none
first_raised(rs) ==
    IF \A i \in DOMAIN rs : rs[i].exc = NoExc THEN NoExc
    ELSE rs[CHOOSE i \in DOMAIN rs :
                /\ rs[i].exc # NoExc
                /\ \A j \in 1..(i - 1) : rs[j].exc = NoExc].exc

\* how many results of a sequence, none of which raised, are True
count_true(rs) == Cardinality({i \in DOMAIN rs : rs[i].ret})

\* score_recent_commits(commits) when datetime.now() is clock
score_recent_commits(commits, clock) ==
    IF ~Truthy(commits) THEN Scored(0, "No commits found")
    ELSE LET commit == attr_get(commits.c[1], "commit", PyDict(<<>>))
             author == attr_get(commit.ret, "author", PyDict(<<>>))
             latest == attr_get(author.ret, "date", PyStr(""))
         IN  IF commit.exc # NoExc THEN commit
             ELSE IF author.exc # NoExc THEN author
             ELSE IF latest.exc # NoExc THEN latest
             ELSE IF ~Truthy(latest.ret) THEN Scored(10, "Unknown activity")
             ELSE IF latest.ret.t # "str" THEN Raise("AttributeError")
             ELSE LET date == fromisoformat(latest.ret.s) IN
                  IF IsInstance(date.exc, {"ValueError", "TypeError", "KeyError"})
                  THEN Scored(10, "Unknown activity")
                  ELSE LET days_ago == (clock - date.ret) \div 24
                           ago      == "(" \o ToString(days_ago) \o "d ago)"
                       IN  IF days_ago < 7 THEN Scored(20, "Active " \o ago)
                           ELSE IF days_ago < 30 THEN Scored(15, "Recent " \o ago)
                           ELSE IF days_ago < 90 THEN Scored(10, "Moderate " \o ago)
                           ELSE IF days_ago < 180 THEN Scored(5, "Stale " \o ago)
                           ELSE Scored(0, "Inactive " \o ago)

\* score_readme(readme), for None and the texts of Readmes
score_readme(readme) ==
    IF ~Truthy(readme) THEN Scored(0, "No README")
    ELSE LET f     == CHOOSE r \in Readmes : r.text = readme.s
             size  == IF f.len > 2000 THEN 5 ELSE IF f.len > 500 THEN 3 ELSE 0
             score == size + (IF f.install THEN 4 ELSE 0)
                           + (IF f.usage THEN 4 ELSE 0)
                           + (IF f.badges THEN 2 ELSE 0)
             notes == (IF f.len > 2000 THEN "detailed"
                       ELSE IF f.len > 500 THEN "basic" ELSE "minimal")
                      \o (IF f.install THEN ", install docs" ELSE "")
                      \o (IF f.usage THEN ", usage docs" ELSE "")
         IN  Scored(IF score < 15 THEN score ELSE 15, notes)

\* i.get("comments", 0) > 0
has_comments(i) ==
    LET c == attr_get(i, "comments", PyNum(0)) IN
    IF c.exc # NoExc THEN c
    ELSE IF c.ret.t \notin {"num", "bool"} THEN Raise("TypeError")
    ELSE Ret(c.ret.n > 0)

\* score_issue_response with thresholds that the rate itself reaches
score_issue_response_inclusive(issues) ==
    IF ~Truthy(issues) THEN Scored(15, "No open issues")
    ELSE LET rs        == [i \in DOMAIN issues.c |-> has_comments(issues.c[i])]
             n         == Len(issues.c)
             responded == count_true(rs)
             pct       == ToString((100 * responded) \div n) \o "% responded"
         IN  IF first_raised(rs) # NoExc THEN Raise(first_raised(rs))
             ELSE IF 10 * responded >= 8 * n THEN Scored(15, pct)
             ELSE IF 10 * responded >= 5 * n THEN Scored(10, pct)
             ELSE IF 10 * responded >= 2 * n THEN Scored(5, pct)
             ELSE Scored(0, "Low response rate")

\* score_issue_response(issues); the rates are compared as fractions, which
\* agrees with the float comparison for the at most 10 issues of a sample
score_issue_response(issues) ==
    IF ~Truthy(issues) THEN Scored(15, "No open issues")
    ELSE LET rs        == [i \in DOMAIN issues.c |-> has_comments(issues.c[i])]
             n         == Len(issues.c)
             responded == count_true(rs)
             pct       == ToString((100 * responded) \div n) \o "% responded"
         IN  IF first_raised(rs) # NoExc THEN Raise(first_raised(rs))
             ELSE IF 10 * responded > 8 * n THEN Scored(15, pct)
             ELSE IF 10 * responded > 5 * n THEN Scored(10, pct)
             ELSE IF 10 * responded > 2 * n THEN Scored(5, pct)
             ELSE Scored(0, "Low response rate")

\* score_pr_merge_rate(prs)
score_pr_merge_rate(prs) ==
    IF ~Truthy(prs) THEN Scored(10, "No PRs")
    ELSE LET ms == [i \in DOMAIN prs.c |->
                      LET m == attr_get(prs.c[i], "merged_at", PyNone) IN
                      IF m.exc # NoExc THEN m ELSE Ret(Truthy(m.ret))]
             cs == [i \in DOMAIN prs.c |->
                      LET c == attr_get(prs.c[i], "state", PyNone) IN
                      IF c.exc # NoExc THEN c ELSE Ret(c.ret = PyStr("closed"))]
             merged == count_true(ms)
             closed == count_true(cs)
             pct    == ToString((100 * merged) \div closed) \o "% merged"
         IN  IF first_raised(ms) # NoExc THEN Raise(first_raised(ms))
             ELSE IF closed = 0 THEN Scored(10, "All PRs open")
             ELSE IF 10 * merged > 7 * closed THEN Scored(15, pct)
             ELSE IF 10 * merged > 5 * closed THEN Scored(10, pct)
             ELSE IF 10 * merged > 3 * closed THEN Scored(5, pct)
             ELSE Scored(0, "Low merge rate")

\* f"{n:,}" for n >= 0
RECURSIVE fmt_thousands(_)
fmt_thousands(n) ==
    IF n < 1000 THEN ToString(n)
    ELSE LET r == n % 1000 IN
         fmt_thousands(n \div 1000) \o ","
            \o (IF r < 10 THEN "00" ELSE IF r < 100 THEN "0" ELSE "") \o ToString(r)

\* one entry of the dict score_repo_health returns
Health(key, score, note) == [key |-> key, score |-> score, note |-> note]

\* score_repo_health(info): its four entries in insertion order
\* (the star emoji that ends the stars note is written "*")
score_repo_health(info) ==
    LET license  == attr_get(info, "license", PyNone)
        spdx     == attr_get(license.ret, "spdx_id", PyStr("Yes"))
        archived == dict_get(info, "archived", PyNone)
        open     == dict_get(info, "open_issues_count", PyNum(0))
        stars    == dict_get(info, "stargazers_count", PyNum(0))
        text     == ToString(open.n) \o " open"
        shown    == PyStr(fmt_thousands(stars.n) \o "*")
    IN  IF license.exc # NoExc THEN license
        ELSE IF Truthy(license.ret) /\ spdx.exc # NoExc THEN spdx
        ELSE IF open.t \notin {"num", "bool"} THEN Raise("TypeError")
        ELSE IF stars.t \notin {"num", "bool"} THEN Raise("TypeError")
        ELSE Ret(<<
            IF Truthy(license.ret) THEN Health("has_license", 5, spdx.ret)
            ELSE Health("has_license", 0, PyStr("None")),
            IF Truthy(archived) THEN Health("not_archived", 0, PyStr("Archived!"))
            ELSE Health("not_archived", 10, PyStr("Active")),
            IF open.n < 20 THEN Health("low_open_issues", 10, PyStr(text))
            ELSE IF open.n < 100 THEN Health("low_open_issues", 7, PyStr(text))
            ELSE IF open.n < 500 THEN Health("low_open_issues", 3, PyStr(text))
            ELSE Health("low_open_issues", 0, PyStr(text \o " (overloaded)")),
            IF stars.n > 10000 THEN Health("stars_velocity", 10, shown)
            ELSE IF stars.n > 1000 THEN Health("stars_velocity", 7, shown)
            ELSE IF stars.n > 100 THEN Health("stars_velocity", 4, shown)
            ELSE Health("stars_velocity", 2, shown) >>)

-----------------------------------------------------------------------------
(* Repository analyzer: analyze_repo and analyze_repos *)

\* owner_repo.split("/") for the identifiers of the model
split_slash(text) ==
    CASE text = "octo/alpha" -> <<"octo", "alpha">>
      [] text = "octo/beta"  -> <<"octo", "beta">>
      [] text = "octo/gamma" -> <<"octo", "gamma">>
      [] text = "a/b/c"      -> <<"a", "b", "c">>
      [] OTHER               -> <<text>>

\* grade_of with thresholds that are not reached by the total itself
grade_of_strict(total) ==
    IF total > 85 THEN "A"
    ELSE IF total > 70 THEN "B"
    ELSE IF total > 55 THEN "C"
    ELSE IF total > 40 THEN "D"
    ELSE "F"

\* the grade of a total
grade_of(total) ==
    IF total >= 85 THEN "A"
    ELSE IF total >= 70 THEN "B"
    ELSE IF total >= 55 THEN "C"
    ELSE IF total >= 40 THEN "D"
    ELSE "F"

\* a sum that leaves out the last value
RECURSIVE sum_values_short(_, _)
sum_values_short(d, i) ==
    IF i >= Len(d.c) THEN 0 ELSE d.c[i].v.n + sum_values_short(d, i + 1)

\* sum(d.values()) for a dict of numbers
RECURSIVE sum_values(_, _)
sum_values(d, i) ==
    IF i > Len(d.c) THEN 0 ELSE d.c[i].v.n + sum_values(d, i + 1)

\* what a call of analyze_repo or analyze_repos did: the value it returned or
\* the exception it raised, the remote calls it made in order, and for
\* analyze_repos the number of analyze_repo calls that returned
Analyzed(ret, exc, trace, count) ==
    [ret |-> ret, exc |-> exc, trace |-> trace, count |-> count]

\* the responses of the API to the five calls about one repository
RepoApi(info, commits, issues, prs, readme) ==
    [info |-> info, commits |-> commits, issues |-> issues, prs |-> prs,
     readme |-> readme]

\* the second half of analyze_repo: the scores, the total, the grade and the
\* metadata, from the data the five calls returned
score_all(owner_repo, info, commits, issues_data, prs, readme, clock) ==
    LET rc     == score_recent_commits(commits, clock)
        rq     == score_readme(readme)
        ir     == score_issue_response(dict_get(issues_data, "items", PyList(<<>>)))
        pr     == score_pr_merge_rate(prs)
        health == score_repo_health(info)
        four   == << <<"recent_commits", rc>>, <<"readme_quality", rq>>,
                     <<"issue_response", ir>>, <<"pr_merge_rate", pr>> >>
        scores == StrDict(
                    [i \in 1..4 |-> <<four[i][1], PyNum(four[i][2].ret.score)>>]
                    \o [i \in DOMAIN health.ret |->
                          <<health.ret[i].key, PyNum(health.ret[i].score)>>])
        details == StrDict(
                    [i \in 1..4 |-> <<four[i][1], four[i][2].ret.note>>]
                    \o [i \in DOMAIN health.ret |->
                          <<health.ret[i].key, health.ret[i].note>>])
        total  == sum_values(scores, 1)
        raised == first_raised(<<rc, rq, ir, pr, health>>)
    IN  IF raised # NoExc THEN Raise(raised)
        ELSE Ret(StrDict(<<
                <<"repo", PyStr(owner_repo)>>,
                <<"scores", scores>>,
                <<"total", PyNum(total)>>,
                <<"grade", PyStr(grade_of(total))>>,
                <<"details", details>>,
                <<"meta", StrDict(<<
                    <<"description", dict_get(info, "description", PyStr(""))>>,
                    <<"stars", dict_get(info, "stargazers_count", PyNum(0))>>,
                    <<"language", dict_get(info, "language", PyStr(""))>>,
                    <<"url", dict_get(info, "html_url", PyStr(""))>> >>)>> >>))

\* the later calls with the README asked for first
later_calls_readme_first(owner, repo) ==
    << Ev("urlopen", API_BASE \o repo_endpoint(owner, repo, "/readme")),
       Ev("urlopen", API_BASE \o repo_endpoint(owner, repo, "/commits?per_page=10")),
       Ev("urlopen", API_BASE \o repo_endpoint(owner, repo,
                                               "/issues?state=open&per_page=10")),
       Ev("urlopen", API_BASE \o repo_endpoint(owner, repo,
                                               "/pulls?state=all&per_page=20")) >>

\* the remote calls analyze_repo makes after the metadata call
later_calls(owner, repo) ==
    << Ev("urlopen", API_BASE \o repo_endpoint(owner, repo, "/commits?per_page=10")),
       Ev("urlopen", API_BASE \o repo_endpoint(owner, repo,
                                               "/issues?state=open&per_page=10")),
       Ev("urlopen", API_BASE \o repo_endpoint(owner, repo,
                                               "/pulls?state=all&per_page=20")),
       Ev("urlopen", API_BASE \o repo_endpoint(owner, repo, "/readme")) >>

\* analyze_repo(owner_repo) with GITHUB_TOKEN = token, when the API answers
\* the five calls with api and datetime.now() is clock
analyze_repo(token, owner_repo, api, clock) ==
    LET parts == split_slash(owner_repo)
        owner == parts[1]
        repo  == parts[2]
        info  == get_repo_info(token, owner, repo, api.info)
        first == <<Ev("urlopen", API_BASE \o repo_endpoint(owner, repo, ""))>>
        has   == py_in("_error", info)
        readme == get_readme(token, owner, repo, api.readme)
        all   == first \o later_calls(owner, repo)
        done  == score_all(owner_repo, info,
                           get_commits(token, owner, repo, api.commits),
                           get_open_issues(token, owner, repo, api.issues),
                           get_pull_requests(token, owner, repo, api.prs),
                           readme.ret, clock)
    IN  IF Len(parts) # 2
        THEN Analyzed(StrDict(<< <<"error",
                         PyStr("Invalid repo format: " \o owner_repo)>> >>),
                      NoExc, <<>>, 0)
        ELSE IF has.exc # NoExc THEN Analyzed(PyNone, has.exc, first, 0)
        ELSE IF Truthy(has.ret)
        THEN IF info.t # "dict" THEN Analyzed(PyNone, "TypeError", first, 0)
             ELSE Analyzed(StrDict(<< <<"error", dict_get(info, "_error", PyNone)>>,
                                      <<"repo", PyStr(owner_repo)>> >>),
                           NoExc, first, 0)
        ELSE IF readme.exc # NoExc THEN Analyzed(PyNone, readme.exc, all, 0)
        ELSE Analyzed(done.ret, done.exc, all, 0)

\* x.get("total", 0), the sort key of a result
total_key(x) == dict_get(x, "total", PyNum(0)).n

\* an insertion that sorts by total ascending
RECURSIVE insert_by_total_ascending(_, _)
insert_by_total_ascending(sorted, x) ==
    IF Len(sorted) = 0 THEN <<x>>
    ELSE IF total_key(Head(sorted)) <= total_key(x)
    THEN <<Head(sorted)>> \o insert_by_total_ascending(Tail(sorted), x)
    ELSE <<x>> \o sorted

\* results.sort(key=..., reverse=True): a stable sort, so results with equal
\* keys keep their order
RECURSIVE insert_by_total(_, _)
insert_by_total(sorted, x) ==
    IF Len(sorted) = 0 THEN <<x>>
    ELSE IF total_key(Head(sorted)) >= total_key(x)
    THEN <<Head(sorted)>> \o insert_by_total(Tail(sorted), x)
    ELSE <<x>> \o sorted

\* (the sorted front is a value computed once: the only element of a set)
RECURSIVE sort_results(_)
sort_results(results) ==
    IF Len(results) = 0 THEN <<>>
    ELSE CHOOSE out \in
             { insert_by_total(front, x) :
                   front \in {sort_results(SubSeq(results, 1, Len(results) - 1))},
                   x \in {results[Len(results)]} } : TRUE

\* repos[:max(1, remaining // 5)]
first_affordable(repos, remaining) ==
    LET k == IF remaining \div 5 > 1 THEN remaining \div 5 ELSE 1 IN
    SubSeq(repos, 1, IF k < Len(repos) THEN k ELSE Len(repos))

\* the loop of analyze_repos over the entries from the i-th on, after the
\* results and the remote calls so far; world gives the API's answers about
\* each repository (result = analyze_repo(title) is a value computed once:
\* the only element of a set)
RECURSIVE analyze_each(_, _, _, _, _, _, _, _)
analyze_each(token, repos, i, world, clock, results, trace, count) ==
    IF i > Len(repos) THEN Analyzed(PyList(sort_results(results)), NoExc, trace, count)
    ELSE LET title == attr_get(repos[i], "title", PyStr(""))
         IN  IF title.exc # NoExc THEN Analyzed(PyNone, title.exc, trace, count)
             ELSE IF ~Truthy(title.ret)
             THEN analyze_each(token, repos, i + 1, world, clock, results, trace, count)
             ELSE IF title.ret.t # "str" THEN Analyzed(PyNone, "TypeError", trace, count)
             ELSE IF Len(split_slash(title.ret.s)) = 1
             THEN analyze_each(token, repos, i + 1, world, clock, results, trace, count)
             ELSE CHOOSE out \in
                 { IF one.exc # NoExc
                   THEN Analyzed(PyNone, one.exc, trace \o one.trace, count)
                   ELSE analyze_each(token, repos, i + 1, world, clock,
                                     Append(results, one.ret),
                                     trace \o one.trace, count + 1) :
                       one \in {analyze_repo(token, title.ret.s,
                                              world[title.ret.s], clock)} } : TRUE

\* analyze_repos(repos) with GITHUB_TOKEN = token, when the API answers the
\* rate-limit call with rate and the calls about each repository with world
analyze_repos(token, repos, rate, world, clock) ==
    LET limit     == get_rate_limit(token, rate)
        remaining == dict_get(limit.ret, "remaining", PyNum(0))
        needed    == Len(repos.c) * 5
        first     == <<Ev("urlopen", API_BASE \o "/rate_limit")>>
        chosen    == IF remaining.n < needed /\ token = ""
                     THEN first_affordable(repos.c, remaining.n)
                     ELSE repos.c
    IN  IF limit.exc # NoExc THEN Analyzed(PyNone, limit.exc, first, 0)
        ELSE IF remaining.t \notin {"num", "bool"}
        THEN Analyzed(PyNone, "TypeError", first, 0)
        ELSE analyze_each(token, chosen, 1, world, clock, <<>>, first, 0)

-----------------------------------------------------------------------------
(* Inputs of the repository analyzer *)

\* GITHUB_TOKEN: not set, set
Tokens == {"", "ghp_token"}

\* answers to the metadata call: a healthy repository, a neglected one, a
\* middling one, the body null, a count that is null, and failures
InfoResponses ==
    { Response("ok", 200, json_dump(StrDict(<<
          <<"license", StrDict(<< <<"spdx_id", PyStr("MIT")>> >>)>>,
          <<"archived", PyBool(FALSE)>>,
          <<"open_issues_count", PyNum(5)>>,
          <<"stargazers_count", PyNum(25000)>>,
          <<"description", PyStr("a tool")>>,
          <<"language", PyStr("Python")>>,
          <<"html_url", PyStr("https://github.com/octo/alpha")>> >>))),
      Response("ok", 200, json_dump(StrDict(<<
          <<"license", PyNone>>,
          <<"archived", PyBool(TRUE)>>,
          <<"open_issues_count", PyNum(700)>>,
          <<"stargazers_count", PyNum(50)>> >>))),
      Response("ok", 200, json_dump(StrDict(<<
          <<"open_issues_count", PyNum(150)>>,
          <<"stargazers_count", PyNum(1500)>> >>))),
      Response("ok", 200, JNull),
      Response("ok", 200, json_dump(StrDict(<<
          <<"open_issues_count", PyNone>> >>))),
      Response("http_error", 403, JNull),
      Response("http_error", 404, JNull),
      Response("http_error", 500, JNull),
      Response("timeout", 0, JNull),
      Response("not_json", 200, JNull) }

\* a commit of the commits call, with the date of its author
CommitAt(date) ==
    StrDict(<< <<"commit", StrDict(<< <<"author",
                  StrDict(<< <<"date", PyStr(date)>> >>)>> >>)>> >>)

\* answers to the commits call: no commit, a latest commit 2, 30 and 215
\* days old, one with a date that is no date, and a failure
CommitResponses ==
    { Response("ok", 200, JArray(<<>>)),
      Response("ok", 200, json_dump(PyList(<<CommitAt("2026-10-31T00:00:00Z"),
                                             CommitAt("2026-04-01T00:00:00Z")>>))),
      Response("ok", 200, json_dump(PyList(<<CommitAt("2026-10-03T00:00:00Z")>>))),
      Response("ok", 200, json_dump(PyList(<<CommitAt("2026-04-01T00:00:00Z")>>))),
      Response("ok", 200, json_dump(PyList(<<CommitAt("yesterday")>>))),
      Response("timeout", 0, JNull) }

\* an open issue with n comments
IssueWith(n) == StrDict(<< <<"comments", PyNum(n)>> >>)

\* answers to the issues call: no issue, all answered, 3 of 4, 1 of 2, none
\* answered, and a failure
IssueResponses ==
    { Response("ok", 200, JArray(<<>>)),
      Response("ok", 200, json_dump(PyList(<<IssueWith(2), IssueWith(1)>>))),
      Response("ok", 200, json_dump(PyList(<<IssueWith(2), IssueWith(1),
                                             IssueWith(0), IssueWith(4)>>))),
      Response("ok", 200, json_dump(PyList(<<IssueWith(0), IssueWith(3)>>))),
      Response("ok", 200, json_dump(PyList(<<IssueWith(0), StrDict(<<>>)>>))),
      Response("url_error", 0, JNull) }

\* a pull request: merged, closed without a merge, open
MergedPr == StrDict(<< <<"state", PyStr("closed")>>,
                       <<"merged_at", PyStr("2026-10-01T00:00:00Z")>> >>)
ClosedPr == StrDict(<< <<"state", PyStr("closed")>>, <<"merged_at", PyNone>> >>)
OpenPr   == StrDict(<< <<"state", PyStr("open")>>, <<"merged_at", PyNone>> >>)

\* answers to the pull-request call: none, all open, all merged, 3 of 5, 2
\* of 5 and 0 of 2 closed ones merged, and a failure
PrResponses ==
    { Response("ok", 200, JArray(<<>>)),
      Response("ok", 200, json_dump(PyList(<<OpenPr>>))),
      Response("ok", 200, json_dump(PyList(<<MergedPr, OpenPr, MergedPr>>))),
      Response("ok", 200, json_dump(PyList(<<MergedPr, ClosedPr, MergedPr,
                                             ClosedPr, MergedPr>>))),
      Response("ok", 200, json_dump(PyList(<<MergedPr, ClosedPr, MergedPr,
                                             ClosedPr, ClosedPr>>))),
      Response("ok", 200, json_dump(PyList(<<ClosedPr, ClosedPr>>))),
      Response("http_error", 500, JNull) }

\* answers to the README call: each README of the model, a content that is
\* not base64, no README, and a failure
ReadmeResponses ==
    { Response("ok", 200, JObject(<<Member("content", JString(r.content))>>))
        : r \in Readmes }
    \cup { Response("ok", 200, JObject(<<Member("content", JString("QQ"))>>)),
           Response("http_error", 404, JNull),
           Response("timeout", 0, JNull) }

RepoApis ==
    { RepoApi(i, c, s, p, r) : i \in InfoResponses, c \in CommitResponses,
                               s \in IssueResponses, p \in PrResponses,
                               r \in ReadmeResponses }

\* an API that knows no repository
QuietApi ==
    RepoApi(Response("http_error", 404, JNull), Response("http_error", 404, JNull),
            Response("http_error", 404, JNull), Response("http_error", 404, JNull),
            Response("http_error", 404, JNull))

\* the identifiers given to analyze_repo: a well-formed one, one with two
\* slashes, one with none, the empty one
Identifiers == {"octo/alpha", "a/b/c", "noslash", ""}

\* What the API answers about the repositories of a batch: octo/alpha is
\* healthy, octo/beta is not found, the commits call about octo/gamma times
\* out, the metadata of octo/delta hold a count that is null.
World ==
    [t \in {"octo/alpha", "octo/beta", "octo/gamma", "octo/delta", "a/b/c",
            "noslash", ""} |->
       CASE t = "octo/alpha" ->
              RepoApi(Response("ok", 200, json_dump(StrDict(<<
                          <<"license", StrDict(<< <<"spdx_id", PyStr("MIT")>> >>)>>,
                          <<"open_issues_count", PyNum(5)>>,
                          <<"stargazers_count", PyNum(25000)>> >>))),
                      Response("ok", 200, json_dump(PyList(<<
                          CommitAt("2026-10-31T00:00:00Z")>>))),
                      Response("ok", 200, JArray(<<>>)),
                      Response("ok", 200, json_dump(PyList(<<MergedPr>>))),
                      Response("ok", 200, JObject(<<Member("content",
                          JString("<base64 of manual.md>"))>>)))
         [] t = "octo/gamma" ->
              RepoApi(Response("ok", 200, json_dump(StrDict(<<
                          <<"archived", PyBool(TRUE)>>,
                          <<"open_issues_count", PyNum(700)>>,
                          <<"stargazers_count", PyNum(50)>> >>))),
                      Response("timeout", 0, JNull),
                      Response("ok", 200, json_dump(PyList(<<IssueWith(0)>>))),
                      Response("ok", 200, json_dump(PyList(<<ClosedPr>>))),
                      Response("http_error", 404, JNull))
         [] t = "octo/delta" ->
              RepoApi(Response("ok", 200, json_dump(StrDict(<<
                          <<"open_issues_count", PyNone>> >>))),
                      Response("ok", 200, JArray(<<>>)),
                      Response("ok", 200, JArray(<<>>)),
                      Response("ok", 200, JArray(<<>>)),
                      Response("http_error", 404, JNull))
         [] OTHER -> QuietApi]

\* an entry of the trending list
Entry(title) == StrDict(<< <<"title", PyStr(title)>> >>)

\* the entries of a batch: the repositories of World, an identifier with two
\* slashes, one with none, and an entry without a title
Entries ==
    { Entry(t) : t \in {"octo/alpha", "octo/beta", "octo/gamma", "octo/delta",
                        "a/b/c", "noslash"} }
    \cup {PyDict(<<>>)}

Batches == UNION {[1..n -> Entries] : n \in 0..MaxBatch}

\* a body of the rate-limit call
Quota(remaining) ==
    json_dump(StrDict(<< <<"resources", StrDict(<< <<"core", StrDict(<<
        <<"remaining", remaining>>, <<"limit", PyNum(60)>>,
        <<"reset", PyNum(0)>> >>)>> >>)>> >>))

\* answers to the rate-limit call: 4, 12 and 60 calls left, a count that is
\* null, and a rate-limited call
RateResponses ==
    { Response("ok", 200, Quota(PyNum(4))),
      Response("ok", 200, Quota(PyNum(12))),
      Response("ok", 200, Quota(PyNum(60))),
      Response("ok", 200, Quota(PyNone)),
      Response("http_error", 403, JNull) }

-----------------------------------------------------------------------------
(* Repository filter (src/github_trending.py): filter_repos *)

\* the characters of the texts of the model ("" and any other text of an
\* entry have none that matter)
chars(text) ==
    CASE text = "12,345" -> <<"1", "2", ",", "3", "4", "5">>
      [] text = "890" -> <<"8", "9", "0">>
      [] text = "1.2k" -> <<"1", ".", "2", "k">>
      [] text = "0" -> <<"0">>
      [] text = "1,000" -> <<"1", ",", "0", "0", "0">>
      [] text = "a/Kit" -> <<"a", "/", "K", "i", "t">>
      [] text = "b/lib" -> <<"b", "/", "l", "i", "b">>
      [] text = "c/kit" -> <<"c", "/", "k", "i", "t">>
      [] text = "d/app" -> <<"d", "/", "a", "p", "p">>
      [] text = "e/kit" -> <<"e", "/", "k", "i", "t">>
      [] text = "f/lib" -> <<"f", "/", "l", "i", "b">>
      [] text = "py tool" -> <<"p", "y", " ", "t", "o", "o", "l">>
      [] text = "Rust kit" -> <<"R", "u", "s", "t", " ", "k", "i", "t">>
      [] text = "kit" -> <<"k", "i", "t">>
      [] text = "KIT" -> <<"K", "I", "T">>
      [] text = "rust" -> <<"r", "u", "s", "t">>
      [] text = "zzz" -> <<"z", "z", "z">>
      [] OTHER -> <<>>

\* str.lower(), character by character
str_lower(cs) ==
    LET UpperCase == <<"A", "B", "C", "D", "E", "F", "G", "H", "I", "J", "K",
                       "L", "M", "N", "O", "P", "Q", "R", "S", "T", "U", "V",
                       "W", "X", "Y", "Z">>
        LowerCase == <<"a", "b", "c", "d", "e", "f", "g", "h", "i", "j", "k",
                       "l", "m", "n", "o", "p", "q", "r", "s", "t", "u", "v",
                       "w", "x", "y", "z">>
    IN
    [i \in DOMAIN cs |->
        IF \E k \in DOMAIN UpperCase : UpperCase[k] = cs[i]
        THEN LowerCase[CHOOSE k \in DOMAIN UpperCase : UpperCase[k] = cs[i]]
        ELSE cs[i]]

\* needle in hay, for two texts
str_in(needle, hay) ==
    \E i \in 0..(Len(hay) - Len(needle)) :
        SubSeq(hay, i + 1, i + Len(needle)) = needle

\* text.replace(',', '')
strip_commas(cs) ==
    LET NotComma(ch) == ch # "," IN SelectSeq(cs, NotComma)

\* the number a text of decimal digits writes
RECURSIVE digits_value(_)
digits_value(cs) ==
    IF cs = <<>> THEN 0
    ELSE 10 * digits_value(SubSeq(cs, 1, Len(cs) - 1))
         + (CHOOSE d \in 0..9 : ToString(d) = cs[Len(cs)])

\* int(text): ValueError unless the text is a number (no text of the model
\* has a sign, blanks or underscores)
py_int(cs) ==
    IF cs # <<>> /\ \A i \in DOMAIN cs : \E d \in 0..9 : ToString(d) = cs[i]
    THEN Ret(digits_value(cs))
    ELSE Raise("ValueError")

\* int(repo.get('stars', '0').replace(',', ''))
parse_stars(repo) ==
    LET stars == attr_get(repo, "stars", PyStr("0")) IN
    IF stars.exc # NoExc THEN stars
    ELSE IF stars.ret.t # "str" THEN Raise("AttributeError")
    ELSE py_int(strip_commas(IF stars.ret.s = "" THEN <<>> ELSE chars(stars.ret.s)))

\* repo.get(key, '').lower()
lower_field(repo, key) ==
    LET x == dict_get(repo, key, PyStr("")) IN
    IF x.t # "str" THEN Raise("AttributeError") ELSE Ret(str_lower(chars(x.s)))

\* the filters of filter_repos: min_stars, max_stars (None when not given),
\* search (None when not given)
Filters(min_stars, max_stars, search) ==
    [min_stars |-> min_stars, max_stars |-> max_stars, search |-> search]

\* the star filters of one entry: whether it passes them
keeps_stars(repo, stars, f) ==
    ~(stars < f.min_stars) /\ ~(Truthy(f.max_stars) /\ stars > f.max_stars.n)

\* the loop of filter_repos over the entries from the i-th on
RECURSIVE filter_each(_, _, _, _)
filter_each(repos, i, f, filtered) ==
    IF i > Len(repos) THEN Ret(PyList(filtered))
    ELSE LET repo  == repos[i]
             stars == parse_stars(repo)
             title == lower_field(repo, "title")
             desc  == lower_field(repo, "description")
             term  == str_lower(chars(f.search.s))
         IN  IF stars.exc # NoExc THEN stars
             ELSE IF ~keeps_stars(repo, stars.ret, f)
             THEN filter_each(repos, i + 1, f, filtered)
             ELSE IF ~Truthy(f.search)
             THEN filter_each(repos, i + 1, f,
                      Append(filtered, dict_set(repo, "_stars_int", PyNum(stars.ret))))
             ELSE IF title.exc # NoExc THEN title
             ELSE IF desc.exc # NoExc THEN desc
             ELSE IF ~str_in(term, title.ret) /\ ~str_in(term, desc.ret)
             THEN filter_each(repos, i + 1, f, filtered)
             ELSE filter_each(repos, i + 1, f,
                      Append(filtered, dict_set(repo, "_stars_int", PyNum(stars.ret))))

\* filter_repos(repos, min_stars, max_stars, search)
filter_repos(repos, f) == filter_each(repos, 1, f, <<>>)

\* the entries of a feed: well-formed ones, stars that are no number, no
\* stars and no description, a description that is null, stars that are a
\* JSON number
Repo(title, description, stars) ==
    StrDict(<< <<"title", PyStr(title)>>, <<"description", description>>,
               <<"stars", stars>> >>)

FeedRepos ==
    { Repo("a/Kit", PyStr("py tool"), PyStr("12,345")),
      Repo("b/lib", PyStr("Rust kit"), PyStr("890")),
      Repo("c/kit", PyStr(""), PyStr("1.2k")),
      StrDict(<< <<"title", PyStr("d/app")>> >>),
      Repo("e/kit", PyNone, PyStr("1,000")),
      Repo("f/lib", PyStr(""), PyNum(45000)) }

RepoLists == UNION {[1..n -> FeedRepos] : n \in 0..MaxRepos}

FilterInputs ==
    { Filters(m, x, t) : m \in {0, 890, 1000, 12346},
                         x \in {PyNone, PyNum(0), PyNum(890), PyNum(12345)},
                         t \in {PyNone, PyStr(""), PyStr("kit"), PyStr("KIT"),
                                PyStr("rust"), PyStr("zzz")} }

-----------------------------------------------------------------------------
(* Inputs of the scoring functions called on their own *)

\* a commit whose author has the given date value
CommitDated(date) ==
    StrDict(<< <<"commit", StrDict(<< <<"author",
                  StrDict(<< <<"date", date>> >>)>> >>)>> >>)

\* latest commits: 2, 6, 7, 29, 30, 89, 90, 179, 180 and 215 days before
\* AnalysisTime; a date that is no date, is empty, null or a number; a
\* commit without its date, its author or its commit object, and one whose
\* commit object is null
LatestCommits ==
    { CommitAt(d) : d \in {"2026-10-31T00:00:00Z", "2026-10-27T00:00:00Z",
                           "2026-10-26T00:00:00Z", "2026-10-04T00:00:00Z",
                           "2026-10-03T00:00:00Z", "2026-08-05T00:00:00Z",
                           "2026-08-04T00:00:00Z", "2026-05-07T00:00:00Z",
                           "2026-05-06T00:00:00Z", "2026-04-01T00:00:00Z",
                           "yesterday", ""} }
    \cup { CommitDated(PyNone), CommitDated(PyNum(1790000000)),
           StrDict(<< <<"commit", StrDict(<< <<"author", StrDict(<<>>)>> >>)>> >>),
           StrDict(<< <<"commit", StrDict(<<>>)>> >>),
           StrDict(<<>>),
           StrDict(<< <<"commit", PyNone>> >>) }

\* the lists of commits: none, a latest commit, a latest and an older one
CommitLists ==
    {<<>>} \cup {<<c>> : c \in LatestCommits}
           \cup {<<c, CommitAt("2026-10-31T00:00:00Z")>> : c \in LatestCommits}

\* datetime.now(): midnight and an hour before the next midnight
Clocks == {AnalysisTime, AnalysisTime + 23}

\* issues of a sample: without and with comments, without the count, with a
\* count that is null
SampleIssues == {IssueWith(0), IssueWith(3), StrDict(<<>>),
                 StrDict(<< <<"comments", PyNone>> >>)}

IssueLists == UNION {[1..n -> SampleIssues] : n \in 0..MaxIssues}

-----------------------------------------------------------------------------
(* Actions *)

Init ==
    /\ now = StartTime
    /\ last_api_call = 0
    /\ disk = [p \in Paths |-> Absent]
    /\ stored = [p \in Paths |-> NothingStored]
    /\ last = NoCall
    /\ budget = [ticks |-> MaxTicks, writes |-> MaxWrites,
                 damage |-> MaxDamage, fetches |-> MaxFetches]
    /\ threads = [t \in Threads |->
                    [pc |-> "idle", wake |-> 0, began |-> 0, calls |-> 0,
                     done |-> [began |-> 0, ended |-> 0]]]

\* time passes between two calls
Tick ==
    /\ budget.ticks > 0
    /\ \E dt \in TickSizes : now' = now + dt
    /\ budget' = [budget EXCEPT !.ticks = @ - 1]
    /\ last' = NoCall
    /\ UNCHANGED <<threads, last_api_call, disk, stored>>

\* read_cache(cache_type, key)
ReadCache ==
    \E cell \in Cells :
        \E r \in {read_cache(disk, now, cell[1], cell[2])} :
            /\ last' = Call("read_cache", cell[1], cell[2], r.ret, r.exc, 0)
            /\ UNCHANGED <<threads, now, last_api_call, disk, stored, budget>>

\* write_cache(cache_type, key, data)
WriteCache ==
    /\ budget.writes > 0
    /\ \E cell \in Cells, data \in Payloads, io \in IoOutcomes :
        \E w \in {write_cache(disk, now, cell[1], cell[2], data, io)} :
            /\ disk' = w.disk
            /\ stored' = [stored EXCEPT ![get_cache_path(cell[1], cell[2])] =
                            Stored(data, now, w.done, "write_cache")]
            /\ last' = Call("write_cache", cell[1], cell[2], PyNone, w.exc, 0)
    /\ budget' = [budget EXCEPT !.writes = @ - 1]
    /\ UNCHANGED <<threads, now, last_api_call>>

\* clear_cache(cache_type), and clear_cache()
ClearCache ==
    \E cache_type \in Categories \cup {"None"} :
        \E c \in {clear_cache(disk, cache_type)} :
            /\ disk' = c.disk
            /\ stored' = [p \in Paths |->
                            IF c.disk[p] # disk[p] THEN NothingStored ELSE stored[p]]
            /\ last' = Call("clear_cache", cache_type, "", PyNone, NoExc, c.count)
            /\ UNCHANGED <<threads, now, last_api_call, budget>>

\* something other than this program leaves a file at a cache path
ForeignFile ==
    /\ budget.damage > 0
    /\ \E p \in Paths, f \in ForeignFiles :
        /\ disk' = [disk EXCEPT ![p] = f]
        /\ stored' = [stored EXCEPT ![p] = NothingStored]
    /\ budget' = [budget EXCEPT !.damage = @ - 1]
    /\ last' = NoCall
    /\ UNCHANGED <<threads, now, last_api_call>>

\* fetch_trending(since, language, use_cache)
FetchTrending ==
    /\ budget.fetches > 0
    /\ \E part \in Partitions, use_cache \in BOOLEAN, resp \in Responses,
          scraped \in Scrapes, io \in IoOutcomes :
        LET since    == part[1]
            language == part[2]
            key      == cache_key(since, language)
            p        == get_cache_path("trending", key)
            found    == IF use_cache
                        THEN read_cache(disk, now, "trending", key).ret
                        ELSE PyNone
        IN  \E f \in {fetch_trending(disk, now, last_api_call, since, language,
                                     use_cache, resp, scraped, io)} :
            /\ disk' = f.disk
            /\ now' = f.now
            /\ last_api_call' = f.last_api_call
            /\ stored' = IF \E i \in DOMAIN f.trace : f.trace[i].call = "write_cache"
                         THEN [stored EXCEPT ![p] =
                                 Stored(f.wrote, f.now, f.done,
                                        IF f.primary = "ok" THEN "primary"
                                        ELSE "fallback")]
                         ELSE stored
            /\ last' = [Call("fetch_trending", "trending", key, f.ret, f.exc, 0)
                           EXCEPT !.since = since, !.language = language,
                                  !.use_cache = use_cache, !.outcome = f.outcome,
                                  !.found = found, !.primary = f.primary,
                                  !.repos = f.repos, !.trace = f.trace,
                                  !.wrote = f.wrote,
                                  !.feed = IF f.primary = "ok"
                                           THEN json_load(resp.doc)
                                           ELSE PyNone]
    /\ budget' = [budget EXCEPT !.fetches = @ - 1]
    /\ UNCHANGED threads

\* a short time passes between two calls of rate_limit()
Elapse ==
    /\ \E dt \in ElapseSizes :
        /\ now + dt <= StartTime + MaxRateTime
        /\ now' = now + dt
    /\ UNCHANGED <<threads, last_api_call, disk, stored, last, budget>>

\* rate_limit(); the record of the call keeps the time it returned at (count)
\* and whether it slept (outcome)
RateLimit ==
    /\ now < StartTime + MaxRateTime
    /\ \E r \in {rate_limit(now, last_api_call)} :
        /\ now' = r.now
        /\ last_api_call' = r.last_api_call
        /\ last' = [Call("rate_limit", "", "", PyNone, NoExc, r.now)
                       EXCEPT !.outcome = IF r.now > now THEN "slept" ELSE "ran"]
    /\ UNCHANGED <<threads, disk, stored, budget>>

\* analyze_repo(owner_repo): the one analysis of a program run.  The API is
\* not asked about a malformed identifier, so one API is enough for those.
AnalyzeRepo ==
    /\ last = NoCall
    /\ \E token \in Tokens, owner_repo \in Identifiers,
          api \in RepoApis \cup {QuietApi} :
        /\ Len(split_slash(owner_repo)) = 2 \/ api = QuietApi
        /\ \E a \in {analyze_repo(token, owner_repo, api, AnalysisTime)} :
            last' = [Call("analyze_repo", "", "", a.ret, a.exc, 0)
                       EXCEPT !.token = token, !.args = PyStr(owner_repo),
                              !.api = api, !.trace = a.trace,
                              !.outcome = IF a.exc = NoExc THEN "return"
                                          ELSE "raise"]
    /\ UNCHANGED <<threads, now, last_api_call, disk, stored, budget>>

\* analyze_repos(repos): the one analysis of a program run; it sleeps 0.2 s
\* after each analyze_repo call
AnalyzeRepos ==
    /\ last = NoCall
    /\ now + 2 * MaxBatch <= StartTime + MaxBatchTime
    /\ \E token \in Tokens, repos \in Batches, rate \in RateResponses :
        \E a \in {analyze_repos(token, PyList(repos), rate, World, AnalysisTime)} :
            /\ last' = [Call("analyze_repos", "", "", a.ret, a.exc, a.count)
                          EXCEPT !.token = token, !.args = PyList(repos),
                                 !.api = rate, !.trace = a.trace,
                                 !.outcome = IF a.exc = NoExc THEN "return"
                                             ELSE "raise"]
            /\ now' = now + 2 * a.count
    /\ UNCHANGED <<threads, last_api_call, disk, stored, budget>>

\* filter_repos(repos, min_stars, max_stars, search): main calls it once
FilterRepos ==
    /\ last = NoCall
    /\ \E repos \in RepoLists, f \in FilterInputs :
        \E r \in {filter_repos(repos, f)} :
            last' = [Call("filter_repos", "", "", r.ret, r.exc, 0)
                       EXCEPT !.args = PyList(repos), !.opts = f,
                              !.outcome = IF r.exc = NoExc THEN "return"
                                          ELSE "raise"]
    /\ UNCHANGED <<threads, now, last_api_call, disk, stored, budget>>

\* score_recent_commits(commits), called on its own
ScoreRecentCommits ==
    /\ last = NoCall
    /\ \E commits \in CommitLists, clock \in Clocks :
        \E r \in {score_recent_commits(PyList(commits), clock)} :
            last' = [Call("score_recent_commits", "", "", r.ret, r.exc, clock)
                       EXCEPT !.args = PyList(commits),
                              !.outcome = IF r.exc = NoExc THEN "return"
                                          ELSE "raise"]
    /\ UNCHANGED <<threads, now, last_api_call, disk, stored, budget>>

\* score_issue_response(issues), called on its own
ScoreIssueResponse ==
    /\ last = NoCall
    /\ \E issues \in IssueLists :
        \E r \in {score_issue_response(PyList(issues))} :
            last' = [Call("score_issue_response", "", "", r.ret, r.exc, 0)
                       EXCEPT !.args = PyList(issues),
                              !.outcome = IF r.exc = NoExc THEN "return"
                                          ELSE "raise"]
    /\ UNCHANGED <<threads, now, last_api_call, disk, stored, budget>>

\* thread t calls rate_limit() and reads the clock and _last_api_call: it
\* goes to sleep until RATE_LIMIT_DELAY has passed since, or on to the write
ThreadRead(t) ==
    /\ threads[t].pc = "idle"
    /\ threads[t].calls < MaxCalls
    /\ now <= StartTime + MaxCallTime
    /\ \E r \in {rate_limit(now, last_api_call)} :
        threads' = [threads EXCEPT ![t].pc = IF r.now > now THEN "sleeping"
                                             ELSE "writing",
                                   ![t].wake = IF r.now > now THEN r.now ELSE 0,
                                   ![t].began = now,
                                   ![t].calls = @ + 1]
    /\ UNCHANGED <<now, last_api_call, disk, stored, last, budget>>

\* time.sleep() of thread t returns, at its time or later
ThreadWake(t) ==
    /\ threads[t].pc = "sleeping"
    /\ now >= threads[t].wake
    /\ threads' = [threads EXCEPT ![t].pc = "writing", ![t].wake = 0]
    /\ UNCHANGED <<now, last_api_call, disk, stored, last, budget>>

\* thread t writes the clock to _last_api_call and rate_limit() returns
ThreadWrite(t) ==
    /\ threads[t].pc = "writing"
    /\ last_api_call' = now
    /\ threads' = [threads EXCEPT ![t].pc = "idle",
                                  ![t].done = [began |-> threads[t].began,
                                               ended |-> now]]
    /\ UNCHANGED <<now, disk, stored, last, budget>>

\* the program run ends: what its call returned is gone
EndRun ==
    /\ last.op \in {"analyze_repo", "analyze_repos", "filter_repos",
                    "score_recent_commits", "score_issue_response"}
    /\ last' = NoCall
    /\ UNCHANGED <<threads, now, last_api_call, disk, stored, budget>>

Next == Tick \/ ReadCache \/ WriteCache \/ ClearCache

\* the cache store under any sequence of its calls
Spec == Init /\ [][Next]_vars

NextFiles == Tick \/ ReadCache \/ ClearCache \/ ForeignFile

\* the cache store reading a directory that holds files it did not write
SpecFiles == Init /\ [][NextFiles]_vars

NextFetch == Tick \/ FetchTrending

\* the trending fetcher over several invocations of the program
SpecFetch == Init /\ [][NextFetch]_vars

NextAnalyze == AnalyzeRepo \/ EndRun

\* the analysis of one repository, run after run
SpecAnalyze == Init /\ [][NextAnalyze]_vars

NextBatch == AnalyzeRepos \/ EndRun

\* the analysis of a list of repositories, run after run
SpecBatch == Init /\ [][NextBatch]_vars

NextFilter == FilterRepos \/ EndRun

\* the filter of the list of a feed, run after run
SpecFilter == Init /\ [][NextFilter]_vars

NextScore == ScoreRecentCommits \/ ScoreIssueResponse \/ EndRun

\* the two scoring functions called on their own
SpecScore == Init /\ [][NextScore]_vars

NextThreads ==
    \/ Elapse
    \/ \E t \in Threads : ThreadRead(t) \/ ThreadWake(t) \/ ThreadWrite(t)

\* rate_limit() called by two threads, their steps interleaved
SpecThreads == Init /\ [][NextThreads]_vars

NextRate == Elapse \/ RateLimit

\* the rate limiter called again and again by one thread
SpecRate == Init /\ [][NextRate]_vars

-----------------------------------------------------------------------------
(* Vocabulary of the properties *)

\* the call c made `call` with argument arg
Called(c, call, arg) == \E i \in DOMAIN c.trace : c.trace[i] = Ev(call, arg)

\* the call c made `call` at all
CalledAny(c, call) == \E i \in DOMAIN c.trace : c.trace[i].call = call

\* the call c reached neither the primary feed nor the listing page
NoNetwork(c) == ~CalledAny(c, "urlopen") /\ ~CalledAny(c, "scrape_trending")

\* this step is a call of fetch_trending
FetchStep == budget'.fetches < budget.fetches

\* the call c is a fetch_trending that returned what the scraper found
ViaFallback(c) ==
    c.op = "fetch_trending" /\ c.outcome = "return" /\ Truthy(c.repos)

\* the language scrape_trending is asked for
scrape_language(language) == IF language = "all" THEN "" ELSE language

\* the cache path of the call c
path_of(c) == get_cache_path(c.cache_type, c.key)

\* a value made of JSON's own types only: None, str, number, list, and dict
\* with str keys
RECURSIVE JsonShaped(_)
JsonShaped(x) ==
    CASE x.t \in {"None", "num", "bool"} -> TRUE
      [] x.t = "str"  -> x # PySurrogate
      [] x.t = "list" -> \A i \in DOMAIN x.c : JsonShaped(x.c[i])
      [] x.t = "dict" -> \A i \in DOMAIN x.c :
                            x.c[i].k.t = "str" /\ JsonShaped(x.c[i].v)
      [] OTHER -> FALSE

\* every item of the feed data x has the internal field names
Normalized(x) ==
    LET items == dict_get(x, "items", PyList(<<>>)) IN
    \A i \in DOMAIN items.c :
        /\ HasKey(items.c[i], "url") => HasKey(items.c[i], "link")
        /\ HasKey(items.c[i], "addStars") => HasKey(items.c[i], "todayStars")

-----------------------------------------------------------------------------
(* Trending fetcher: C1 - C5, under SpecFetch *)

\* C1: on a cache hit (read_cache returns a payload for the key of (since,
\* language)) fetch_trending returns that payload unchanged and makes no
\* other call: no rate_limit, no primary request, no scrape, no cache write.
C1_HitReturnsCached ==
    (last.op = "fetch_trending" /\ last.use_cache /\ last.found # PyNone) =>
        /\ last.outcome = "return"
        /\ last.ret = last.found
        /\ last.trace = <<Ev("read_cache", last.key)>>

\* C2: whenever the primary request fails (HTTP error status, transport
\* error, timeout, unreadable response), fetch_trending scrapes the same
\* partition and the failure does not reach the caller.
C2_PrimaryFailureFallsBack ==
    (last.op = "fetch_trending" /\ last.primary \notin {"", "ok"}) =>
        /\ Called(last, "scrape_trending",
                  scrape_url(scrape_language(last.language), last.since))
        /\ last.outcome # "raise"

\* C3 as stated: a fetch_trending call that follows a call which succeeded
\* through the fallback, for the same (since, language) and within the TTL,
\* returns the same data and reaches neither the primary feed nor the
\* listing page (the second call consulting the cache, as by default).
C3_SecondCallServedFromCache ==
    [][ (/\ ViaFallback(last)
         /\ FetchStep
         /\ last'.use_cache
         /\ last'.key = last.key
         /\ now - stored[path_of(last)].at <= CACHE_TTL.trending)
        => (/\ last'.outcome = "return"
            /\ last'.ret = last.ret
            /\ NoNetwork(last')) ]_vars

\* C3 as amended: a call that succeeds through the fallback hands the data
\* it returns to write_cache under the key of (since, language); and when
\* that write reached the disk, a later call for the same partition that
\* consults the cache within the trending TTL returns the same data and
\* reaches neither the primary feed nor the listing page.
C3_SecondCallServedWhenWritten ==
    [][ FetchStep =>
          LET c == last'
              s == stored[path_of(c)]
          IN  /\ ViaFallback(c) =>
                    /\ c.trace[Len(c.trace)] = Ev("write_cache", cache_key(c.since, c.language))
                    /\ c.wrote = c.ret
                    /\ stored'[path_of(c)].via = "fallback"
              /\ (/\ c.use_cache
                  /\ s.valid /\ s.done /\ s.via = "fallback"
                  /\ now - s.at <= CACHE_TTL.trending)
                 => (/\ c.outcome = "return"
                     /\ c.ret = s.data
                     /\ NoNetwork(c)) ]_vars

\* a call served, half an hour or more later, from the record a fallback wrote
C3_Witness ==
    LET s == stored[path_of(last)] IN
    /\ last.op = "fetch_trending" /\ last.use_cache
    /\ s.valid /\ s.done /\ s.via = "fallback"
    /\ now - s.at >= 1800 * 10
    /\ last.outcome = "return" /\ last.ret = s.data /\ NoNetwork(last)

\* C4: when the primary feed fails and the scrape yields no entry,
\* fetch_trending ends the invocation (sys.exit(1)): it returns nothing and
\* leaves the cache as it was.
C4_EmptyFallbackIsFatal ==
    [][ (/\ FetchStep
         /\ CalledAny(last', "scrape_trending")
         /\ ~Truthy(last'.repos))
        => (/\ last'.outcome = "exit"
            /\ last'.exc = "SystemExit"
            /\ last'.ret = PyNone
            /\ ~CalledAny(last', "write_cache")
            /\ disk' = disk
            /\ stored' = stored) ]_vars

\* the primary feed answered 404, the scrape found nothing, the call exited
C4_Witness ==
    /\ last.op = "fetch_trending"
    /\ last.primary = "http_error"
    /\ last.repos = PyList(<<>>)
    /\ last.outcome = "exit"

\* C5: on a cache miss fetch_trending calls rate_limit() and then requests
\* the primary feed of the partition; when the primary feed answers with a
\* feed (a JSON object), it returns the feed, normalised, after handing it to
\* write_cache
\* under the key of (since, language) as its last call, without calling the
\* scraper; a write that reached the disk is what read_cache then returns.
C5_MissGoesToPrimary ==
    last.op = "fetch_trending" =>
        LET url == feed_url(last.since, last.language)
            s   == stored[path_of(last)]
        IN  /\ \A i \in DOMAIN last.trace :
                   last.trace[i].call = "urlopen" =>
                       /\ i > 1
                       /\ last.trace[i - 1] = Ev("rate_limit", "")
                       /\ last.trace[i].arg = url
                       /\ last_api_call = now
            /\ (~last.use_cache \/ last.found = PyNone) =>
                   Called(last, "urlopen", url)
            /\ (last.primary = "ok" /\ last.feed.t = "dict") =>
                   /\ last.outcome = "return"
                   /\ last.trace =
                        (IF last.use_cache THEN <<Ev("read_cache", last.key)>> ELSE <<>>)
                        \o <<Ev("rate_limit", ""), Ev("urlopen", url),
                             Ev("write_cache", cache_key(last.since, last.language))>>
                   /\ Normalized(last.ret)
                   /\ last.wrote = last.ret
                   /\ s = Stored(last.ret, now, s.done, "primary")
                   /\ s.done =>
                        read_cache(disk, now, "trending", last.key) = Ret(last.ret)

-----------------------------------------------------------------------------
(* Cache store: C6 under SpecFiles, C7 - C10 under Spec *)

\* C6: read_cache never raises, whatever the file of the key holds: it
\* returns None for a file that is absent, unreadable, malformed in any way
\* (valid JSON of another shape included) or expired.
C6_ReadNeverRaises ==
    last.op = "read_cache" => last.exc = NoExc

\* C7: read_cache serves a record if and only if now - cachedAt <= TTL of its
\* category: it returns the payload of a record no older than the TTL and
\* None for an older one.
C7_ServedIffWithinTTL ==
    last.op = "read_cache" =>
        LET s == stored[path_of(last)] IN
        (s.valid /\ s.done) =>
            /\ last.exc = NoExc
            /\ now - s.at <= ttl_of(last.cache_type) =>
                   last.ret = json_load(json_dump(s.data))
            /\ now - s.at > ttl_of(last.cache_type) => last.ret = PyNone

\* a record read when its age is exactly the TTL of its category, and served
C7_Witness ==
    LET s == stored[path_of(last)] IN
    /\ last.op = "read_cache"
    /\ s.valid /\ s.done /\ s.data # PyNone
    /\ now - s.at = ttl_of(last.cache_type)
    /\ last.ret = s.data

C9_WriteNeverRaises ==
    last.op = "write_cache" =>
        /\ last.exc = NoExc
        /\ (~stored[path_of(last)].done /\ disk[path_of(last)].kind = "partial") =>
               read_cache(disk, now, last.cache_type, last.key) = Ret(PyNone)

\* C10: clear_cache(category) removes every file of that category and
\* clear_cache() every file of every category; each returns the number of
\* files it removed, and read_cache of a cleared (category, key) then
\* returns None.
C10_ClearRemovesAndCounts ==
    [][ last'.op = "clear_cache" =>
          LET scope == {p \in Paths : last'.cache_type = "None"
                                       \/ p.dir = last'.cache_type}
          IN  /\ \A p \in scope : disk'[p] = Absent
              /\ last'.count = Cardinality({p \in scope : disk[p] # Absent})
              /\ last'.exc = NoExc
              /\ \A c \in Categories, k \in Keys :
                     get_cache_path(c, k) \in scope =>
                         read_cache(disk', now', c, k) = Ret(PyNone) ]_vars

\* clear_cache() removed two files or more
C10_Witness ==
    /\ last.op = "clear_cache"
    /\ last.cache_type = "None"
    /\ last.count >= 2
    /\ \A p \in Paths : disk[p] = Absent

-----------------------------------------------------------------------------
(* Rate limiter: C11, under SpecRate *)

\* C11: in a single-threaded run every rate_limit() call returns at least
\* RATE_LIMIT_DELAY after the previous rate_limit() call returned, and has
\* recorded the time it returns at in _last_api_call.
C11_CallsSpacedByDelay ==
    [][ (last'.op = "rate_limit" /\ last' # last) =>
          /\ last'.count = now'
          /\ last_api_call' = now'
          /\ last.op = "rate_limit" =>
                 now' - last.count >= RATE_LIMIT_DELAY ]_vars

\* a call that came less than RATE_LIMIT_DELAY after the one before it, and
\* slept until the delay had passed
C11_Witness ==
    /\ last.op = "rate_limit"
    /\ last.outcome = "slept"
    /\ last.count >= StartTime + RATE_LIMIT_DELAY + 1
    /\ last_api_call = now

-----------------------------------------------------------------------------
(* Vocabulary of the analyzer's properties *)

\* a result that carries scores; an error result
IsScored(r) == r.t = "dict" /\ HasKey(r, "scores")
IsError(r)  == r.t = "dict" /\ HasKey(r, "error")

\* the keys of a dict
keys_of(d) == {d.c[i].k.s : i \in DOMAIN d.c}

\* the score a result gives to a metric, its total, its grade
score_in(r, metric) == dict_get(dict_get(r, "scores", PyNone), metric, PyNone).n
total_in(r) == dict_get(r, "total", PyNone).n
grade_in(r) == dict_get(r, "grade", PyNone).s

\* the call that just returned is analyze_repo, for a well-formed identifier
AnalyzedOne == last.op = "analyze_repo" /\ Len(split_slash(last.args.s)) = 2

\* analyze_repos just returned a list
AnalyzedBatch == last.op = "analyze_repos" /\ last.exc = NoExc

\* the quota remaining that the rate-limit call reported to the last call
quota_left == dict_get(get_rate_limit(last.token, last.api).ret, "remaining", PyNone).n

\* the identifier of an entry is one owner/name pair
WellFormed(entry) ==
    /\ HasKey(entry, "title")
    /\ Len(split_slash(dict_get(entry, "title", PyNone).s)) = 2

\* a response that is a transient remote failure: timeout, network error, 5xx
Transient(resp) ==
    \/ resp.kind \in {"timeout", "url_error"}
    \/ resp.kind = "http_error" /\ resp.code >= 500

\* the greater of two numbers
Max(a, b) == IF a >= b THEN a ELSE b

-----------------------------------------------------------------------------
(* Health scorer: C12, C13, C17 - C19 under SpecAnalyze *)

\* C12: every successful analyze_repo result has exactly the eight
\* sub-metrics in scores, a total equal to the sum of the eight sub-scores,
\* and a total between 0 and 100.
C12_TotalIsSumOfEight ==
    (last.op = "analyze_repo" /\ last.exc = NoExc /\ IsScored(last.ret)) =>
        LET r == last.ret
            scores == dict_get(r, "scores", PyNone)
        IN  /\ keys_of(scores) = DOMAIN WEIGHTS
            /\ Len(scores.c) = 8
            /\ total_in(r) =
                   score_in(r, "recent_commits") + score_in(r, "readme_quality")
                 + score_in(r, "issue_response") + score_in(r, "pr_merge_rate")
                 + score_in(r, "has_license") + score_in(r, "low_open_issues")
                 + score_in(r, "stars_velocity") + score_in(r, "not_archived")
            /\ total_in(r) >= 0
            /\ total_in(r) <= 100

\* a result with the highest total there is
C12_Witness ==
    /\ last.op = "analyze_repo"
    /\ IsScored(last.ret)
    /\ total_in(last.ret) = 100
    /\ score_in(last.ret, "stars_velocity") = 10

\* C13: the grade of a successful result follows from its total alone: A iff
\* total >= 85, B iff 70 <= total < 85, C iff 55 <= total < 70, D iff
\* 40 <= total < 55, F iff total < 40.
C13_GradeFromTotal ==
    (last.op = "analyze_repo" /\ last.exc = NoExc /\ IsScored(last.ret)) =>
        LET total == total_in(last.ret)
            grade == grade_in(last.ret)
        IN  /\ grade \in {"A", "B", "C", "D", "F"}
            /\ grade = "A" <=> total >= 85
            /\ grade = "B" <=> (70 <= total /\ total < 85)
            /\ grade = "C" <=> (55 <= total /\ total < 70)
            /\ grade = "D" <=> (40 <= total /\ total < 55)
            /\ grade = "F" <=> total < 40

\* a result whose total is exactly a threshold
C13_Witness ==
    /\ last.op = "analyze_repo"
    /\ IsScored(last.ret)
    /\ total_in(last.ret) = 70
    /\ grade_in(last.ret) = "B"

\* C17: when the metadata call fails (rate-limited, not found, any other
\* error), analyze_repo returns an error result without scores, total or
\* grade, and makes none of the four other calls.
C17_MetadataFailureShortCircuits ==
    (AnalyzedOne /\ last.api.info.kind # "ok") =>
        /\ last.exc = NoExc
        /\ IsError(last.ret)
        /\ keys_of(last.ret) \cap {"scores", "total", "grade"} = {}
        /\ last.trace = <<Ev("urlopen", API_BASE \o "/repos/" \o last.args.s)>>

\* the metadata call timed out while the other calls would have succeeded
C17_Witness ==
    /\ AnalyzedOne
    /\ last.api.info.kind = "timeout"
    /\ last.api.commits.kind = "ok" /\ last.api.readme.kind = "ok"
    /\ IsError(last.ret)
    /\ Len(last.trace) = 1

\* C18: a transient failure (timeout, 5xx, network error) of any of the
\* remote calls made while a repository is scored is recorded as an error
\* result for that repository (and does not raise).
C18_TransientFailureIsAnError ==
    (/\ AnalyzedOne
     /\ \/ Transient(last.api.info)
        \/ /\ Len(last.trace) = 5
           /\ \/ Transient(last.api.commits) \/ Transient(last.api.issues)
              \/ Transient(last.api.prs) \/ Transient(last.api.readme))
    => (last.exc = NoExc /\ IsError(last.ret))

\* C19: every remote call of analyze_repo comes after a look into the cache
\* store (read_cache) and right after a call of the rate limiter.
C19_CallsUseCacheAndRateLimiter ==
    last.op = "analyze_repo" =>
        \A i \in DOMAIN last.trace :
            last.trace[i].call = "urlopen" =>
                /\ i > 1
                /\ last.trace[i - 1].call = "rate_limit"
                /\ \E j \in 1..(i - 1) : last.trace[j].call = "read_cache"

-----------------------------------------------------------------------------
(* Batch analysis: C14 - C16, C20 under SpecBatch *)

\* C14: without a credential, with R calls left and N entries, analyze_repos
\* scores exactly max(1, R div 5) entries when R < 5 * N and all N entries
\* otherwise.
C14_ScoresWhatQuotaAffords ==
    (AnalyzedBatch /\ last.token = "") =>
        LET N == Len(last.args.c)
            R == quota_left
            K == IF R < 5 * N THEN Max(1, R \div 5) ELSE N
        IN  /\ last.count = K
            /\ Len(last.ret.c) = K

\* C15: an entry whose identifier is not one owner/name pair gives an error
\* result in the list analyze_repos returns, and the other entries are still
\* analysed: when nothing is cut off, every entry has its result.
C15_MalformedEntryIsAnError ==
    (AnalyzedBatch /\ (last.token # "" \/ quota_left >= 5 * Len(last.args.c))) =>
        LET entries == last.args.c
            results == last.ret.c
        IN  /\ Len(results) = Len(entries)
            /\ Cardinality({j \in DOMAIN results : IsError(results[j])})
                 >= Cardinality({i \in DOMAIN entries : ~WellFormed(entries[i])})

\* C16: the list analyze_repos returns is ordered by total descending, an
\* error result counting as total 0, and every error result comes after
\* every scored result.
C16_SortedByTotalErrorsLast ==
    AnalyzedBatch =>
        LET results == last.ret.c
            key(r)  == IF IsScored(r) THEN total_in(r) ELSE 0
        IN  \A i, j \in DOMAIN results :
                i < j => /\ key(results[i]) >= key(results[j])
                         /\ ~(IsError(results[i]) /\ IsScored(results[j]))

\* a list of three given as (error, low total, high total) and returned as
\* (high total, low total, error)
C16_Witness ==
    /\ AnalyzedBatch
    /\ last.args = PyList(<<Entry("octo/beta"), Entry("octo/gamma"),
                            Entry("octo/alpha")>>)
    /\ Len(last.ret.c) = 3
    /\ total_in(last.ret.c[1]) = 100
    /\ IsScored(last.ret.c[2])
    /\ IsError(last.ret.c[3])

\* C20: with the same answers of the API, every repository gets the same
\* result (scores, total, grade) with and without GITHUB_TOKEN, and so does
\* the whole list when the quota covers it; without a token and with too
\* little quota the list is only cut short.
C20_TokenChangesOnlyTruncation ==
    last.op = "analyze_repos" =>
        /\ last.exc = NoExc =>
              \A j \in DOMAIN last.ret.c : \A token \in Tokens :
                  LET r    == last.ret.c[j]
                      name == dict_get(r, "repo", PyNone).s
                  IN  HasKey(r, "repo") =>
                          analyze_repo(token, name, World[name], AnalysisTime).ret = r
        /\ \A token \in Tokens :
              LET other == analyze_repos(token, last.args, last.api, World,
                                         AnalysisTime)
                  whole == analyze_repos("ghp_token", last.args, last.api, World,
                                         AnalysisTime)
              IN  /\ (quota_left >= 5 * Len(last.args.c) \/ token # "")
                         => (other.exc = whole.exc /\ other.ret = whole.ret)
                  /\ (other.exc = NoExc /\ whole.exc = NoExc)
                         => Len(other.ret.c) <= Len(whole.ret.c)

\* with a token set the three entries are all scored on a quota of 4
C20_Witness ==
    /\ AnalyzedBatch
    /\ last.token # ""
    /\ quota_left = 4
    /\ Len(last.ret.c) = 3
    /\ IsScored(last.ret.c[1])
    /\ IsScored(last.ret.c[2])

-----------------------------------------------------------------------------
(* Repository filter: C21 - C24 under SpecFilter *)

\* filter_repos just ended
Filtered == last.op = "filter_repos"

\* the star count of an entry as the filter is said to parse it: thousands
\* separators stripped, an integer, 0 for a malformed value
stars_of(entry) ==
    LET p == parse_stars(entry) IN IF p.exc = NoExc THEN p.ret ELSE 0

\* the lowercase text of a field of an entry, empty when there is none
text_of(entry, key) ==
    LET x == dict_get(entry, key, PyStr("")) IN
    IF x.t = "str" THEN str_lower(chars(x.s)) ELSE <<>>

\* an entry with its derived star field
with_stars(entry) == dict_set(entry, "_stars_int", PyNum(stars_of(entry)))

\* C21: filter_repos(entries, min_stars=S) returns exactly the entries whose
\* parsed star count is >= S, in their input order.
C21_MinStarsKeepsExactly ==
    (Filtered /\ last.opts.max_stars = PyNone /\ last.opts.search = PyNone) =>
        LET AtLeast(e) == stars_of(e) >= last.opts.min_stars
            kept == SelectSeq(last.args.c, AtLeast)
        IN  /\ last.exc = NoExc
            /\ last.ret = PyList([i \in DOMAIN kept |-> with_stars(kept[i])])

\* C22: filter_repos(entries, max_stars=M) with M supplied, M = 0 included,
\* returns exactly the entries whose parsed star count is <= M, in their
\* input order.
C22_MaxStarsKeepsExactly ==
    (/\ Filtered
     /\ last.opts.min_stars = 0
     /\ last.opts.max_stars # PyNone
     /\ last.opts.search = PyNone) =>
        LET AtMost(e) == stars_of(e) <= last.opts.max_stars.n
            kept == SelectSeq(last.args.c, AtMost)
        IN  /\ last.exc = NoExc
            /\ last.ret = PyList([i \in DOMAIN kept |-> with_stars(kept[i])])

\* C23: filter_repos (no search term given) does not raise on a malformed
\* star value but uses 0, and each entry it returns carries its parsed star
\* count in _stars_int.
C23_MalformedStarsParseAsZero ==
    (Filtered /\ last.opts.search = PyNone) =>
        /\ last.exc = NoExc
        /\ \A j \in DOMAIN last.ret.c :
              dict_get(last.ret.c[j], "_stars_int", PyNone)
                  = PyNum(stars_of(last.ret.c[j]))

\* C24: filter_repos with a search term keeps an entry iff the term, in
\* lowercase, is contained in the lowercase title or description of the
\* entry.
C24_SearchKeepsMatches ==
    (/\ Filtered
     /\ last.opts.min_stars = 0
     /\ last.opts.max_stars = PyNone
     /\ last.opts.search # PyNone) =>
        LET term == str_lower(chars(last.opts.search.s))
            Matches(e) == \/ str_in(term, text_of(e, "title"))
                          \/ str_in(term, text_of(e, "description"))
            kept == SelectSeq(last.args.c, Matches)
        IN  /\ last.exc = NoExc
            /\ last.ret = PyList([i \in DOMAIN kept |-> with_stars(kept[i])])

-----------------------------------------------------------------------------
(* Scoring functions: C25, C26 under SpecScore *)

\* the date of the latest commit of the last call: the text of
\* commits[0].commit.author.date, "" when that path leads to no text
latest_text ==
    LET at(x, key) == IF x.t = "dict" THEN dict_get(x, key, PyNone) ELSE PyNone
        date == at(at(at(last.args.c[1], "commit"), "author"), "date")
    IN  IF date.t = "str" THEN date.s ELSE ""

\* C25: score_recent_commits returns 0 for an empty list, 10 without raising
\* when the date of the latest commit is missing or cannot be parsed, and
\* otherwise 20, 15, 10, 5 or 0 for a latest commit less than 7, less than
\* 30, less than 90, less than 180 or more whole days old.
C25_CommitRecencyScore ==
    last.op = "score_recent_commits" =>
        /\ last.exc = NoExc
        /\ last.ret.score =
             IF Len(last.args.c) = 0 THEN 0
             ELSE IF fromisoformat(latest_text).exc # NoExc THEN 10
             ELSE LET days_ago == (last.count - fromisoformat(latest_text).ret) \div 24
                  IN  IF days_ago < 7 THEN 20
                      ELSE IF days_ago < 30 THEN 15
                      ELSE IF days_ago < 90 THEN 10
                      ELSE IF days_ago < 180 THEN 5
                      ELSE 0

\* the issues of the last call that have at least one comment
commented ==
    {i \in DOMAIN last.args.c :
        dict_get(last.args.c[i], "comments", PyNum(0)).n > 0}

\* every issue of the last call has a number of comments or none stated
CommentsCounted ==
    \A i \in DOMAIN last.args.c :
        dict_get(last.args.c[i], "comments", PyNum(0)).t = "num"

\* C26: score_issue_response returns 15 for an empty sample and otherwise
\* 15, 10, 5 or 0 as the share of issues with a comment is above 0.8, above
\* 0.5, above 0.2 or not, each threshold strict.
C26_IssueResponseScore ==
    (last.op = "score_issue_response" /\ CommentsCounted) =>
        LET n == Len(last.args.c)
            r == Cardinality(commented)
        IN  /\ last.exc = NoExc
            /\ last.ret.score =
                 IF n = 0 THEN 15
                 ELSE IF 10 * r > 8 * n THEN 15
                 ELSE IF 10 * r > 5 * n THEN 10
                 ELSE IF 10 * r > 2 * n THEN 5
                 ELSE 0

\* half of a sample of four has comments and the score is 5
C26_Witness ==
    /\ last.op = "score_issue_response"
    /\ CommentsCounted
    /\ Len(last.args.c) = 4
    /\ Cardinality(commented) = 2
    /\ last.ret.score = 5

-----------------------------------------------------------------------------
(* Remote calls of analyze_repo: C27 under SpecAnalyze *)

\* C27: analyze_repo makes its remote calls one after the other, five at
\* most: none for a malformed identifier, the metadata call alone when it
\* fails, and otherwise the five calls in the order metadata, commits, open
\* issues, pull requests, README.
C27_AtMostFiveCallsInOrder ==
    last.op = "analyze_repo" =>
        LET about == API_BASE \o "/repos/" \o last.args.s
            five  == << Ev("urlopen", about),
                        Ev("urlopen", about \o "/commits?per_page=10"),
                        Ev("urlopen", about \o "/issues?state=open&per_page=10"),
                        Ev("urlopen", about \o "/pulls?state=all&per_page=20"),
                        Ev("urlopen", about \o "/readme") >>
        IN  /\ Len(last.trace) <= 5
            /\ Len(split_slash(last.args.s)) # 2 => last.trace = <<>>
            /\ (AnalyzedOne /\ last.api.info.kind # "ok")
                   => last.trace = SubSeq(five, 1, 1)
            /\ (AnalyzedOne /\ last.api.info.kind = "ok") => last.trace = five

\* a scored repository after five calls, and the README call failed
C27_Witness ==
    /\ AnalyzedOne
    /\ IsScored(last.ret)
    /\ Len(last.trace) = 5
    /\ last.api.readme.kind # "ok"

-----------------------------------------------------------------------------
(* Concurrent callers of the rate limiter: C28 under SpecThreads *)

\* the last calls of threads a and b that have returned ran at the same
\* time: neither returned before the other began
Overlapped(a, b) ==
    /\ threads[a].done.began <= threads[b].done.ended
    /\ threads[b].done.began <= threads[a].done.ended

\* C28: the spacing of rate_limit() rests on its calls not running at the
\* same time: two calls of which one began after the other had returned
\* return at least RATE_LIMIT_DELAY apart (and two threads whose calls
\* overlap can return closer than that, which C28_Witness reaches).
C28_SpacingNeedsSerialCalls ==
    \A a, b \in Threads :
        (/\ a # b
         /\ threads[a].calls > 0 /\ threads[a].pc = "idle"
         /\ threads[b].calls > 0 /\ threads[b].pc = "idle"
         /\ threads[a].done.ended < threads[b].done.began)
        => threads[b].done.ended - threads[a].done.ended >= RATE_LIMIT_DELAY

\* both threads have slept in an overlapping call of rate_limit() and have
\* returned less than RATE_LIMIT_DELAY apart
C28_Witness ==
    /\ \A t \in Threads : threads[t].pc = "idle" /\ threads[t].calls = 2
    /\ Overlapped("t1", "t2")
    /\ threads["t1"].done.ended > threads["t1"].done.began
    /\ threads["t2"].done.ended > threads["t2"].done.began
    /\ threads["t2"].done.ended - threads["t1"].done.ended < RATE_LIMIT_DELAY
    /\ threads["t1"].done.ended - threads["t2"].done.ended < RATE_LIMIT_DELAY

-----------------------------------------------------------------------------
(* Empty primary feed: C29 under SpecFetch *)

\* the primary feed answered the call c with a document whose item list is
\* empty
EmptyFeed(c) ==
    /\ c.op = "fetch_trending"
    /\ c.primary = "ok"
    /\ c.feed.t = "dict"
    /\ dict_get(c.feed, "items", PyNone) = PyList(<<>>)

\* C29: a successful answer of the primary feed with an empty item list is
\* accepted: fetch_trending hands it to write_cache, returns it and does not
\* call scrape_trending, and a write that reached the disk is what read_cache
\* then returns; scrape_trending is called only after the primary request
\* ended in an HTTPError (status) or URLError (transport).
C29_EmptyFeedIsAccepted ==
    last.op = "fetch_trending" =>
        /\ EmptyFeed(last) =>
               /\ last.outcome = "return"
               /\ last.ret = last.feed
               /\ last.wrote = last.feed
               /\ ~CalledAny(last, "scrape_trending")
               /\ stored[path_of(last)].done =>
                      read_cache(disk, now, "trending", last.key) = Ret(last.feed)
        /\ CalledAny(last, "scrape_trending") =>
               last.primary \in {"http_error", "url_error"}

-----------------------------------------------------------------------------
(* Isolation of the cache records: C30 under Spec *)

\* the (cache_type, key) pairs that have a path in the model
KeyedCells == {cell \in Categories \X Keys : get_cache_path(cell[1], cell[2]) \in Paths}

\* the pairs whose record the call c is allowed to change: the pair written,
\* the pairs of the category cleared, none for a read
Touched(c) ==
    CASE c.op = "write_cache" -> {cell \in KeyedCells : cell = <<c.cache_type, c.key>>}
      [] c.op = "clear_cache" -> {cell \in KeyedCells : cell[1] = c.cache_type}
      [] OTHER                -> {}

\* C30: write_cache(c, k, ..) changes the record of (c, k) only, clear_cache(c)
\* removes records of category c only, and read_cache changes no record at
\* all, the expired record it reports as a miss included: read_cache of any
\* other (category, key) returns after the call what it returned before it.
C30_RecordsAreIsolated ==
    [][ (/\ last'.op \in {"write_cache", "clear_cache", "read_cache"}
         /\ last'.cache_type \in Categories) =>
          IF last'.op = "read_cache"
          THEN \* nothing a later read depends on has changed
               disk' = disk /\ now' = now
          ELSE \A cell \in KeyedCells \ Touched(last') :
                   LET p == get_cache_path(cell[1], cell[2]) IN
                   /\ disk'[p] = disk[p]
                   /\ read_cache(disk', now', cell[1], cell[2])
                          = read_cache(disk, now, cell[1], cell[2]) ]_vars

\* clear_cache("issues") has removed a record some time after the writes, and
\* the record of another category is still on the disk and still served
C30_Witness ==
    /\ last.op = "clear_cache" /\ last.cache_type = "issues" /\ last.count = 1
    /\ now > StartTime
    /\ \E cell \in KeyedCells :
           /\ cell[1] # "issues"
           /\ disk[get_cache_path(cell[1], cell[2])].kind = "json"
           /\ read_cache(disk, now, cell[1], cell[2]) # Ret(PyNone)

=============================================================================
